---- MODULE Spec2Model ----
(***************************************************************************)
(* Model of tools/UI_Tables.py (pychemqt): the MEoS plugin.  The project   *)
(* configuration (ConfigParser section "MEoS"), the configuration dialogs, *)
(* the stored plot data files, the tables and plots and their project     *)
(* serialisation, and the AddPoint dialog.                                 *)
(*                                                                         *)
(* Temperatures are in hundredths of a kelvin (298.15 K = 29815), all      *)
(* other quantities are integers.  An exception that leaves a handler is   *)
(* recorded in err; what the handler changed before it is kept.            *)
(***************************************************************************)
EXTENDS Integers, Sequences, FiniteSets, TLC

\* ------------------------------------------------------------------ bounds
N_PROP == 2        \* len(ThermoAdvanced.properties())
MaxEq == 2         \* equations offered for a fluid
MaxNest == 1       \* plugin.plot calls running at once (nested through processEvents)
NChunk == 1        \* processEvents calls inside one calculatePlot
MaxShipped == 1    \* fluids whose MEOS data file is shipped
MaxRows == 2       \* state points in a table
MaxAppended == 4   \* times Dimensionless is appended to unidades._all
MaxLines == 4      \* lines of a plot besides the two crosshair lines
MaxUpdates == 2    \* AddPoint.update calls running at once (nested through processEvents)
MaxEnd == 3        \* largest value entered in a range dialog
MaxIncr == 2       \* largest increment entered in a range dialog

\* --------------------------------------------------------------- variables
VARIABLES
    config,     \* project ConfigParser: [sec |-> has_section("MEoS"), opt |-> options]
    dirty,      \* parent().dirty[parent().idTab]
    err,        \* exception that left the last handler, "" when none
    menu,       \* Menu: enabled state of its Calculate and Plot entries
    dialog,     \* Dialog: open flag and enabled state of its two buttons
    choose,     \* the Ui_ChooseFluid dialog being executed
    refDlg      \* the Ui_ReferenceState dialog being executed

cfgVars == <<config, dirty, err, menu, dialog, choose, refDlg>>

VARIABLES
    pref,       \* pychemqtrc, section MEOS: the coolprop and refprop flags
    softFiles,  \* the files of config.conf_dir: filename -> pickled content
    hardFiles,  \* the shipped files dat/mEoS/<filename>.gz: filename -> content
    stack       \* the running plugin.plot calls, the innermost last

plotVars == <<pref, softFiles, hardFiles, stack>>

VARIABLES
    saved,      \* filename -> the data last passed to _saveData by a caller
    got         \* the last call of _getData: its filename and what it returned

dataVars == <<saved, got>>

VARIABLES
    unidades_all,   \* unidades._all, the module-level list of unit classes
    tabla,          \* the TablaMEoS of the project window
    tablaJSON,      \* the dict TablaMEoS.writeToJSON filled last
    tablaWritten,   \* the table as it was when tablaJSON was written
    tablaLoaded     \* the table TablaMEoS.readFromJSON returned for tablaJSON

tabVars == <<unidades_all, tabla, tablaJSON, tablaWritten, tablaLoaded>>

VARIABLES
    grafico,        \* the PlotMEoS of the project window
    plotJSON,       \* the dict PlotMEoS.writeToJSON filled last
    plotWritten,    \* the plot as it was when plotJSON was written
    plotLoaded      \* the plot PlotMEoS.readFromJSON returned for plotJSON

jsonVars == <<grafico, plotJSON, plotWritten, plotLoaded>>

VARIABLES
    addPoint        \* the AddPoint dialog: its fluid, input fields and status widget

apVars == <<addPoint>>

VARIABLES
    iso,        \* the running or finished calcIsoline call
    plotData    \* the data calculatePlot returned last

calcVars == <<iso, plotData>>

VARIABLES
    widget,     \* the rows the table widget of tabla shows, and the exception
                \* a handler of the table left with
    lineFile,   \* the lists of the table's line in the data file of the plot
    pending,    \* the inputs of the table's Point, the current cell and the
                \* points calculated so far
    built       \* the lists createTabla built the table of the window from

rowVars == <<widget, lineFile, pending, built>>

VARIABLES
    plot3d,     \* the Plot3D dialog: its combo boxes and the keys plot3D passed
    propDlg,    \* the Ui_Properties dialog: its rows, order and buttons
    rangeDlg    \* the Ui_Saturation or Ui_Isoproperty dialog and the range last
                \* calculated from one

dlgVars == <<plot3d, propDlg, rangeDlg>>

\* the variables of the calculation functions and of the remaining dialogs
toolVars == <<calcVars, rowVars, dlgVars>>

\* ------------------------------------------------- the mEoS fluid catalogue
\* the families of DialogFilterFluid.classOrder that are modelled, each with
\* the number of fluids mEoS.__getattribute__(grp) holds
Families == <<1, 2, 1>>

NFam == Len(Families)

FamLen(g) == Families[g]

RECURSIVE FamStart(_)
\* index in mEoS.__all__ of the first fluid of family g
FamStart(g) == IF g = 1 THEN 0 ELSE FamStart(g - 1) + FamLen(g - 1)

\* len(mEoS.__all__): the concatenation of the families in classOrder order
NFluid == FamStart(NFam) + FamLen(NFam)

\* mEoS.__all__[f].Tb
Tb(f) == 10000 + f

\* ------------------------------------------------------------ ConfigParser
\* str(v): the text ConfigParser stores for a value
Str(v) == <<v>>

\* config.getint / getfloat / getboolean: parse the stored text
getval(c, k) == c.opt[k][1]

has_section(c) == c.sec

has_option(c, k) == c.sec /\ k \in DOMAIN c.opt

add_section(c) == [c EXCEPT !.sec = TRUE]

cfgset(c, k, v) ==
    [c EXCEPT !.opt = [x \in (DOMAIN c.opt) \cup {k} |->
                          IF x = k THEN v ELSE c.opt[x]]]

EmptyOpt == [x \in {} |-> 0]

\* Ui_Properties._default = [1, 0, 1, 0, 0, 1, 0, 1, 1]+[0]*(N_PROP-9)
DefaultPattern == <<1, 0, 1, 0, 0, 1, 0, 1, 1>>
_default == [i \in 1..N_PROP |-> IF i <= 9 THEN DefaultPattern[i] ELSE 0]

\* list(range(N_PROP))
RangeNProp == [i \in 1..N_PROP |-> i - 1]

\* ---------------------------------------- Ui_ChooseFluid / DialogFilterFluid
\* mEoS.__all__ index of the k-th fluid (k from 0) of family g
FamMember(g, k) == FamStart(g) + k

RECURSIVE Compounds(_, _)
\* Ui_ChooseFluid.filter: cmps, the families checked in group, in classOrder
\* order, as the list of mEoS.__all__ indexes shown (g counts down from NFam)
Compounds(group, g) ==
    IF g = 0 THEN <<>>
    ELSE Compounds(group, g - 1) \o
         (IF group[g] THEN [k \in 1..FamLen(g) |-> FamMember(g, k - 1)] ELSE <<>>)

\* the fluids Ui_ChooseFluid.lista shows, as mEoS.__all__ indexes
Lista(d) == IF d.all THEN [k \in 1..NFluid |-> k - 1] ELSE Compounds(d.group, NFam)

RECURSIVE IdLoop(_, _, _, _, _)
\* the for loop of Ui_ChooseFluid.id: returns hiden when the loop ends
IdLoop(group, id, g, visible, hiden) ==
    IF g > NFam THEN hiden
    ELSE LET v == IF group[g] THEN visible + FamLen(g) ELSE visible
             h == IF group[g] THEN hiden ELSE hiden + FamLen(g)
         IN IF v >= id THEN h ELSE IdLoop(group, id, g + 1, v, h)

\* Ui_ChooseFluid.id
ChooseId(d) ==
    IF d.all THEN d.row ELSE d.row + IdLoop(d.group, d.row, 1, 0, 0)

ChooseClosed == [open |-> FALSE, host |-> "", all |-> TRUE, group |-> <<>>, row |-> -1]

Hosts == {"Menu", "Dialog"}

\* a plugin method can be invoked from the Menu always, from the Dialog when open
HostReady(cls) == cls = "Menu" \/ dialog.open

NoModal == ~choose.open /\ ~refDlg.open

\* plugin.showChooseFluid up to dlg.exec_(): Ui_ChooseFluid.__init__
showChooseFluid(cls) ==
    /\ NoModal /\ HostReady(cls)
    /\ choose' = [open |-> TRUE, host |-> cls, all |-> TRUE, group |-> <<>>,
                  row |-> IF has_option(config, "fluid")
                          THEN getval(config, "fluid") ELSE -1]
    /\ err' = ""
    /\ UNCHANGED <<config, dirty, menu, dialog, refDlg>>

\* Ui_ChooseFluid.filter with the DialogFilterFluid accepted
filter(showAll, grp) ==
    /\ choose.open
    /\ choose' = IF showAll
                 THEN [choose EXCEPT !.all = TRUE, !.row = -1]
                 ELSE [choose EXCEPT !.all = FALSE, !.group = grp, !.row = -1]
    /\ UNCHANGED <<config, dirty, err, menu, dialog, refDlg>>

\* the user selects a row of lista
setCurrentRow(r) ==
    /\ choose.open
    /\ r \in 0..(Len(Lista(choose)) - 1)
    /\ r # choose.row
    /\ choose' = [choose EXCEPT !.row = r]
    /\ UNCHANGED <<config, dirty, err, menu, dialog, refDlg>>

\* plugin.checkProperties
checkProperties(c) ==
    IF ~has_option(c, "properties")
    THEN cfgset(cfgset(cfgset(c, "properties", Str(_default)),
                       "phase", "0"),
                "propertiesOrder", Str(RangeNProp))
    ELSE c

Radios == {"MEoS", "Generalized", "PR"}

\* plugin.showChooseFluid after dlg.exec_() returned true
showChooseFluidAccept(eq, radio) ==
    /\ choose.open
    /\    LET c0 == add_section(config)
              c1 == cfgset(c0, "fluid", Str(ChooseId(choose)))
              c2 == cfgset(c1, "eq", Str(eq))
              c3 == cfgset(c2, "PR", Str(radio = "PR"))
              c4 == cfgset(c3, "Generalized", Str(radio = "Generalized"))
              c5 == cfgset(c4, "visco", Str(0))
              c6 == cfgset(c5, "thermal", Str(0))
          IN config' = checkProperties(c6)
    /\ dirty' = TRUE
    \* Dialog case: self.fluido is no attribute of Dialog
    /\ err' = IF choose.host = "Dialog" THEN "AttributeError" ELSE ""
    /\ choose' = ChooseClosed
    /\ UNCHANGED <<menu, dialog, refDlg>>

\* plugin.showChooseFluid after dlg.exec_() returned false
showChooseFluidReject ==
    /\ choose.open
    /\ choose' = ChooseClosed
    /\ UNCHANGED <<config, dirty, err, menu, dialog, refDlg>>

\* ------------------------------------------------------- Ui_ReferenceState
RefNames == {"OTO", "NBP", "IIR", "ASHRAE", "Custom"}

RefClosed == [open |-> FALSE, host |-> "", checked |-> "OTO",
              T |-> 29815, P |-> 101325, h |-> 0, s |-> 0]

\* Ui_ReferenceState.__init__: the dialog state it builds from the config, or
\* the name of the exception it raises
RefInit(c, cls) ==
    LET fresh == [RefClosed EXCEPT !.open = TRUE, !.host = cls] IN
    IF has_option(c, "reference")
    THEN IF c.opt["reference"] \in {"OTO", "NBP", "IIR", "ASHRAE"}
         THEN [dlg |-> [fresh EXCEPT !.checked = c.opt["reference"]], exc |-> ""]
         ELSE IF {"T", "P", "h", "s"} \subseteq DOMAIN c.opt
              THEN [dlg |-> [fresh EXCEPT !.checked = "Custom",
                                          !.T = getval(c, "T"), !.P = getval(c, "P"),
                                          !.h = getval(c, "h"), !.s = getval(c, "s")],
                    exc |-> ""]
              \* config.getfloat("MEoS", "T"): no such option
              ELSE [dlg |-> RefClosed, exc |-> "NoOptionError"]
    ELSE [dlg |-> fresh, exc |-> ""]

\* plugin.showReference up to dlg.exec_()
showReference(cls) ==
    /\ NoModal /\ HostReady(cls)
    /\ refDlg' = RefInit(config, cls).dlg
    /\ err' = RefInit(config, cls).exc
    /\ UNCHANGED <<config, dirty, menu, dialog, choose>>

\* the tuple assignment of each branch of showReference: the five values, or
\* the exception the branch raises
RefValues(c, d) ==
    CASE d.checked = "OTO" ->
            [exc |-> "", v |-> <<"OTO", 29815, 101325, 0, 0>>]
      [] d.checked = "NBP" ->
            IF has_option(c, "fluid")
            THEN [exc |-> "",
                  v |-> <<"NBP", Tb(getval(c, "fluid") % NFluid), 101325, 0, 0>>]
            ELSE [exc |-> "NoOptionError", v |-> <<>>]
      [] d.checked = "IIR" ->
            [exc |-> "", v |-> <<"IIR", 27315, 101325, 200, 1>>]
      \* refName, refT, refP, refH, refS = "ASHRAE", 233.15, 101325,
      [] d.checked = "ASHRAE" ->
            [exc |-> "ValueError", v |-> <<>>]
      [] OTHER ->
            [exc |-> "", v |-> <<"Custom", d.T, d.P, d.h, d.s>>]

\* the user checks one of the five radio buttons
setChecked(o) ==
    /\ refDlg.open
    /\ o \in RefNames /\ o # refDlg.checked
    /\ refDlg' = [refDlg EXCEPT !.checked = o]
    /\ UNCHANGED <<config, dirty, err, menu, dialog, choose>>

\* the user enters the four values, the fields being enabled for Custom only
setValue(T, P, h, s) ==
    /\ refDlg.open
    /\ refDlg.checked = "Custom"
    /\ <<T, P, h, s>> # <<refDlg.T, refDlg.P, refDlg.h, refDlg.s>>
    /\ refDlg' = [refDlg EXCEPT !.T = T, !.P = P, !.h = h, !.s = s]
    /\ UNCHANGED <<config, dirty, err, menu, dialog, choose>>

\* plugin.showReference after dlg.exec_() returned true
showReferenceAccept ==
    /\ refDlg.open
    /\ LET c0 == add_section(config)
           r == RefValues(c0, refDlg)
       IN IF r.exc # ""
          THEN /\ config' = c0
               /\ err' = r.exc
               /\ UNCHANGED dirty
          ELSE /\ config' = checkProperties(
                      cfgset(cfgset(cfgset(cfgset(cfgset(c0,
                          "reference", r.v[1]),
                          "Tref", Str(r.v[2])),
                          "Pref", Str(r.v[3])),
                          "ho", Str(r.v[4])),
                          "so", Str(r.v[5])))
               /\ dirty' = TRUE
               \* Dialog case: self.reference is no attribute of Dialog
               /\ err' = IF refDlg.host = "Dialog" THEN "AttributeError" ELSE ""
    /\ refDlg' = RefClosed
    /\ UNCHANGED <<menu, dialog, choose>>

\* plugin.showReference after dlg.exec_() returned false
showReferenceReject ==
    /\ refDlg.open
    /\ refDlg' = RefClosed
    /\ UNCHANGED <<config, dirty, err, menu, dialog, choose>>

\* ------------------------------------------------------------ Ui_Properties
Perms == {p \in [1..N_PROP -> 0..(N_PROP - 1)] :
             \A i, j \in 1..N_PROP : p[i] = p[j] => i = j}

\* plugin.showProperties with the dialog accepted: props, the check marks
\* (1 for a checked row), fase, the phase check box, and order, the row order
showPropertiesAccept(cls, props, fase, order) ==
    /\ NoModal /\ HostReady(cls)
    /\ config' = cfgset(cfgset(cfgset(add_section(config),
                     "properties", Str(props)),
                     "phase", IF fase THEN "True" ELSE "False"),
                     "propertiesOrder", Str(order))
    /\ dirty' = TRUE
    /\ err' = ""
    /\ UNCHANGED <<menu, dialog, choose, refDlg>>

\* plugin.showProperties with the dialog cancelled
showPropertiesReject(cls) ==
    /\ NoModal /\ HostReady(cls)
    /\ err' = ""
    /\ UNCHANGED <<config, dirty, menu, dialog, choose, refDlg>>

\* ----------------------------------------------------------- Menu / Dialog
\* the test with or in the place of and
CalcPlotEnabled_or(c) == has_option(c, "fluid") \/ has_option(c, "reference")

\* the condition under which Calculate and Plot stay enabled
CalcPlotEnabled(c) == has_option(c, "fluid") /\ has_option(c, "reference")

\* Menu.aboutToShow_menu
aboutToShow_menu ==
    /\ NoModal
    /\ menu' = [shown |-> TRUE, calculate |-> CalcPlotEnabled(config),
                plot |-> CalcPlotEnabled(config)]
    /\ err' = ""
    /\ UNCHANGED <<config, dirty, dialog, choose, refDlg>>

\* Dialog.__init__
DialogInit ==
    /\ NoModal /\ ~dialog.open
    /\ dialog' = [open |-> TRUE, calculate |-> CalcPlotEnabled(config),
                  plot |-> CalcPlotEnabled(config)]
    /\ err' = ""
    /\ UNCHANGED <<config, dirty, menu, choose, refDlg>>

\* the Close button of Dialog: reject
DialogClose ==
    /\ NoModal /\ dialog.open
    /\ dialog' = [dialog EXCEPT !.open = FALSE]
    /\ UNCHANGED <<config, dirty, err, menu, choose, refDlg>>

\* ------------------------------------------------- stored plot data (pickle)
\* pickle.dump / pickle.load
Pickle(d) == <<"pickle", d>>
Unpickle(b) == b[2]

\* gzip.GzipFile write / read
Gzip(b) == <<"gzip", b>>
Gunzip(b) == b[2]

NoConf == [method |-> "", fluid |-> -1, eq |-> -1, visco |-> -1, thermal |-> -1]

\* None
NoData == [some |-> FALSE, lines |-> <<>>, config |-> NoConf]

\* getMethod
getMethod(p) ==
    IF p.coolprop /\ p.refprop THEN "REFPROP"
    ELSE IF p.coolprop THEN "COOLPROP"
    ELSE "MEOS"

Methods == {"MEOS", "COOLPROP", "REFPROP"}

\* getClassFluid: the fluid of mEoS.__all__ the calculation class stands for
getClassFluid(c) == getval(c, "fluid") % NFluid

\* a file name that leaves the method out
FileName_noMethod(method, fluid) == <<"", "-", fluid, ".pkl">>

\* filename = "%s-%s.pkl" % (method, fluid.name)
FileName(method, fluid) == <<method, "-", fluid, ".pkl">>

\* PlotMEoS._saveData
_saveData(files, filename, data) ==
    [f \in (DOMAIN files) \cup {filename} |->
        IF f = filename THEN Pickle(data) ELSE files[f]]

\* _getData looking for the shipped file first
_getDataSource_hardFirst(soft, hard, filename) ==
    IF filename \in DOMAIN hard THEN "hard"
    ELSE IF filename \in DOMAIN soft THEN "soft"
    ELSE "none"

\* which file PlotMEoS._getData opens
_getDataSource(soft, hard, filename) ==
    IF filename \in DOMAIN soft THEN "soft"
    ELSE IF filename \in DOMAIN hard THEN "hard"
    ELSE "none"

\* PlotMEoS._getData: the data returned and the user files afterwards
_getData(soft, hard, filename) ==
    LET src == _getDataSource(soft, hard, filename) IN
    IF src = "soft"
    THEN [data |-> Unpickle(soft[filename]), soft |-> soft]
    ELSE IF src = "hard"
    THEN LET data == Unpickle(Gunzip(hard[filename]))
         IN [data |-> data, soft |-> _saveData(soft, filename, data)]
    ELSE [data |-> NoData, soft |-> soft]

\* the axes of a plot request: 2D plots of the menu and one 3D plot
PlotAxes == {<<"s", "T", "">>, <<"T", "P", "rho">>}

Top == stack[Len(stack)]

SetTop(a) == [stack EXCEPT ![Len(stack)] = a]

Pop == SubSeq(stack, 1, Len(stack) - 1)

\* plugin.plot up to the first processEvents
plot(x, y, z) ==
    /\ NoModal
    /\ CalcPlotEnabled(config)
    /\ Len(stack) < MaxNest
    /\ LET fluid == getClassFluid(config)
           method == getMethod(pref)
       IN stack' = Append(stack,
              [pc |-> "loading", fluid |-> fluid, method |-> method,
               filename |-> FileName(method, fluid), x |-> x, y |-> y, z |-> z,
               source |-> "", data |-> NoData, chunks |-> <<>>])
    /\ UNCHANGED <<pref, softFiles, hardFiles>>
    /\ UNCHANGED cfgVars

\* plugin.plot: data = grafico._getData() and the test of it
plotGetData ==
    /\ NoModal
    /\ Len(stack) > 0 /\ Top.pc = "loading"
    /\ LET r == _getData(softFiles, hardFiles, Top.filename)
           src == _getDataSource(softFiles, hardFiles, Top.filename)
       IN /\ softFiles' = r.soft
          /\ IF r.data.some
             THEN stack' = SetTop([Top EXCEPT !.pc = "plotting", !.source = src,
                                              !.data = r.data])
             ELSE stack' = SetTop([Top EXCEPT !.pc = "calculating", !.source = src])
    /\ UNCHANGED <<pref, hardFiles>>
    /\ UNCHANGED cfgVars

\* plugin.calculatePlot: the points computed between two processEvents calls,
\* each by calcPoint(fluid, self.config, ...) with the options of the config
plotCalculate ==
    /\ NoModal
    /\ Len(stack) > 0 /\ Top.pc = "calculating" /\ Len(Top.chunks) < NChunk
    /\ stack' = SetTop([Top EXCEPT !.chunks = Append(@,
                    [fluid |-> Top.fluid, eq |-> getval(config, "eq")])])
    /\ UNCHANGED <<pref, softFiles, hardFiles>>
    /\ UNCHANGED cfgVars

\* plugin.plot: the end of calculatePlot, the config record and _saveData
plotSave ==
    /\ NoModal
    /\ Len(stack) > 0 /\ Top.pc = "calculating" /\ Len(Top.chunks) = NChunk
    /\ LET conf == [method |-> Top.method,
                    fluid |-> getval(config, "fluid"),
                    eq |-> getval(config, "eq"),
                    visco |-> getval(config, "visco"),
                    thermal |-> getval(config, "thermal")]
           data == [some |-> TRUE, lines |-> Top.chunks, config |-> conf]
       IN /\ softFiles' = _saveData(softFiles, Top.filename, data)
          /\ stack' = SetTop([Top EXCEPT !.pc = "plotting", !.data = data])
    /\ UNCHANGED <<pref, hardFiles>>
    /\ UNCHANGED cfgVars

\* plugin.plot after the last processEvents: plot2D3D and grafico.show()
plotShow ==
    /\ NoModal
    /\ Len(stack) > 0 /\ Top.pc = "plotting"
    /\ stack' = Pop
    /\ UNCHANGED <<pref, softFiles, hardFiles>>
    /\ UNCHANGED cfgVars

\* plugin.configure with the ConfDialog accepted: the method flags it sets
configure(cp, rp) ==
    /\ NoModal
    /\ pref' = [coolprop |-> cp, refprop |-> rp]
    /\ pref' # pref
    /\ UNCHANGED <<softFiles, hardFiles, stack>>
    /\ UNCHANGED cfgVars

\* ----------------------------------------------------------------- TablaMEoS
\* unidades._all as imported: the unit classes, Dimensionless not among them
UnitClasses == <<"Temperature", "Pressure", "Density">>

\* ThermoAdvanced.properties()[i]: name, key and unit of property i; the odd
\* ones stand for the dimensionless properties
properties(i) ==
    [name |-> <<"name", i>>,
     key |-> <<"key", i>>,
     unit |-> IF i % 2 = 1 THEN "Dimensionless"
              ELSE UnitClasses[((i \div 2) % Len(UnitClasses)) + 1]]

\* key in ThermoAdvanced.propertiesPhase()
propertiesPhase(i) == i % 2 = 1

\* key in ["P", "T", "x", "rho", "v", "h", "s"]
IsInputKey(i) == i % 2 = 0

\* config.getboolean
getboolean(c, k) == c.opt[k] = "True"

RECURSIVE get_propiedadesFrom(_, _, _)
get_propiedadesFrom(order, booleanos, j) ==
    IF j > Len(order) \/ j > Len(booleanos) THEN <<>>
    ELSE (IF booleanos[j] = 1 THEN <<order[j]>> ELSE <<>>)
         \o get_propiedadesFrom(order, booleanos, j + 1)

\* get_propiedades: the indexes of the properties to show, zip(order, booleanos)
get_propiedades(c) ==
    get_propiedadesFrom(getval(c, "propertiesOrder"), getval(c, "properties"), 1)

RECURSIVE Columns(_, _, _)
\* createTabla: the columns, a property shown in two phases taking three
Columns(props, phase, j) ==
    IF j > Len(props) THEN <<>>
    ELSE (IF phase /\ propertiesPhase(props[j])
          THEN <<[prop |-> props[j], prefix |-> ""],
                 [prop |-> props[j], prefix |-> "Liquid"],
                 [prop |-> props[j], prefix |-> "Vapour"]>>
          ELSE <<[prop |-> props[j], prefix |-> ""]>>)
         \o Columns(props, phase, j + 1)

\* unit.text(): the text of the unit configured, "[-]" when there is none
UnitText(unit, order) == IF unit = "Dimensionless" THEN <<"[-]", 0>> ELSE <<unit, order>>

\* the header of a column: its lines (os.linesep between them)
HeaderText(col, ou) ==
    (IF col.prefix = "" THEN <<>> ELSE <<(<<col.prefix, 0>>)>>)
    \o <<properties(col.prop).name, UnitText(properties(col.prop).unit, ou)>>

\* format kwarg default: {"format": 1, "decimales": 6, "signo": False}
DefaultFormat == [format |-> 1, decimales |-> 6, signo |-> FALSE]

\* a format NumericFactor returns when the user changes it
OtherFormat == [format |-> 2, decimales |-> 3, signo |-> TRUE]

NoPoint == [method |-> "", fluid |-> -1]

NoTabla ==
    [some |-> FALSE, title |-> <<>>, column |-> 0, htitle |-> <<>>, units |-> <<>>,
     orderUnit |-> <<>>, format |-> <<>>, readOnly |-> TRUE, data |-> <<>>,
     keys |-> <<>>, columnReadOnly |-> <<>>, Point |-> NoPoint]

NoJSON ==
    [some |-> FALSE, column |-> 0, title |-> <<>>, htitle |-> <<>>, unit |-> <<>>,
     readOnly |-> TRUE, method |-> "", fluid |-> -1, keys |-> <<>>,
     columnReadOnly |-> <<>>, orderUnit |-> <<>>, format |-> <<>>, data |-> <<>>]

\* TablaMEoS.__init__ without orderUnit and format: the order of each unit
\* from the Units section (ou stands for its entries), the default format
TablaMEoS(title, cols, readOnly, keys, columnReadOnly, ou) ==
    [some |-> TRUE,
     title |-> title,
     column |-> Len(cols),
     htitle |-> [k \in 1..Len(cols) |-> HeaderText(cols[k], ou)],
     units |-> [k \in 1..Len(cols) |-> properties(cols[k].prop).unit],
     orderUnit |-> [k \in 1..Len(cols) |->
                      IF properties(cols[k].prop).unit = "Dimensionless" THEN 0 ELSE ou],
     format |-> [k \in 1..Len(cols) |-> DefaultFormat],
     readOnly |-> readOnly,
     data |-> <<>>,
     keys |-> keys,
     columnReadOnly |-> columnReadOnly,
     Point |-> NoPoint]

\* list.insert(i, e)
Insert(seq, i, e) ==
    LET k == IF i > Len(seq) THEN Len(seq) ELSE i
    IN SubSeq(seq, 1, k) \o <<e>> \o SubSeq(seq, k + 1, Len(seq))

\* TablaMEoS.setRow at the first row whatever the row asked
setRow_front(data, row, d) == Insert(data, 0, d)

\* TablaMEoS.setRow: self.data.insert(row, data)
setRow(data, row, d) == Insert(data, row, d)

RECURSIVE setDataRows(_, _, _)
setDataRows(own, data, i) ==
    IF i > Len(data) THEN own
    ELSE setDataRows(setRow(own, i - 1, data[i]), data, i + 1)

\* TablaMEoS.setData
setData(t, data) ==
    IF t.readOnly THEN [t EXCEPT !.data = data]
    ELSE [t EXCEPT !.data = setDataRows(t.data, data, 1)]

\* _getData(fluid, keys, phase): the row of a state point, v standing for
\* the state
PointRow(v, ncol) == [k \in 1..ncol |-> 10 * v + k]

\* mEoS.__all__[f].id
FluidId(f) == 100 + f

\* getClassFluid: the calculation instance a table keeps as its Point
ClassFluid(c, p) ==
    IF p.coolprop /\ p.refprop THEN [method |-> "refprop", fluid |-> FluidId(getClassFluid(c))]
    ELSE IF p.coolprop THEN [method |-> "coolprop", fluid |-> FluidId(getClassFluid(c))]
    ELSE [method |-> "meos", fluid |-> getClassFluid(c)]

\* createTabla: columnInput and keys of a dynamic table
ColumnInput(cols) ==
    [k \in 1..Len(cols) |-> ~(cols[k].prefix = "" /\ IsInputKey(cols[k].prop))]

TablaKeys(cols) ==
    [k \in 1..Len(cols) |-> IF cols[k].prefix = "" THEN properties(cols[k].prop).key
                                                  ELSE <<"", 0>>]

\* createTabla
createTabla(c, title, fluidos, ou) ==
    LET cols == Columns(get_propiedades(c), getboolean(c, "phase"), 1)
        t == IF Len(fluidos) > 0
             THEN setData(TablaMEoS(title, cols, TRUE, <<>>, <<>>, ou),
                          [i \in 1..Len(fluidos) |-> PointRow(fluidos[i], Len(cols))])
             ELSE TablaMEoS(title, cols, FALSE, TablaKeys(cols), ColumnInput(cols), ou)
    IN [t EXCEPT !.title = <<"Table">> \o title]

\* list.index
Index(seq, e) ==
    (CHOOSE i \in 1..Len(seq) : seq[i] = e /\ \A j \in 1..(i - 1) : seq[j] # e) - 1

\* TablaMEoS.writeToJSON: the dict it fills, all being unidades._all after
\* the append
TablaWriteToJSON(t, all) ==
    [some |-> TRUE,
     column |-> t.column,
     title |-> t.title,
     htitle |-> t.htitle,
     unit |-> [k \in 1..Len(t.units) |-> Index(all, t.units[k])],
     readOnly |-> t.readOnly,
     method |-> IF t.readOnly THEN "" ELSE t.Point.method,
     fluid |-> IF t.readOnly THEN -1 ELSE t.Point.fluid,
     keys |-> IF t.readOnly THEN <<>> ELSE t.keys,
     columnReadOnly |-> IF t.readOnly THEN <<>> ELSE t.columnReadOnly,
     orderUnit |-> t.orderUnit,
     format |-> t.format,
     data |-> t.data]

\* TablaMEoS.readFromJSON: the table it returns, all being unidades._all
\* after the append
TablaReadFromJSON(d, all) ==
    LET t0 == [some |-> TRUE,
               title |-> d.title,
               column |-> d.column,
               htitle |-> d.htitle,
               units |-> [k \in 1..Len(d.unit) |-> all[d.unit[k] + 1]],
               orderUnit |-> d.orderUnit,
               format |-> d.format,
               readOnly |-> d.readOnly,
               data |-> <<>>,
               keys |-> IF d.readOnly THEN <<>> ELSE d.keys,
               columnReadOnly |-> IF d.readOnly THEN <<>> ELSE d.columnReadOnly,
               Point |-> NoPoint]
        t1 == setData(t0, d.data)
    IN IF d.readOnly THEN t1
       ELSE [t1 EXCEPT !.Point = [method |-> d.method, fluid |-> d.fluid]]

\* plugin.addTable: a read-only table of the state points fluidos (the
\* table of the window is created before the project is first saved)
addTable(fluidos, ou) ==
    /\ NoModal /\ CalcPlotEnabled(config)
    /\ ~tablaJSON.some
    /\ tabla' = createTabla(config, <<getClassFluid(config), "line", getMethod(pref)>>,
                            fluidos, ou)
    /\ UNCHANGED <<unidades_all, tablaJSON, tablaWritten, tablaLoaded>>

\* plugin.addTableSpecified: a blank table to calculate state points in
addTableSpecified(ou) ==
    /\ NoModal /\ CalcPlotEnabled(config)
    /\ ~tablaJSON.some
    /\ tabla' = [createTabla(config,
                       <<getClassFluid(config), "Specified state points", getMethod(pref)>>,
                       <<>>, ou)
                   EXCEPT !.Point = ClassFluid(config, pref)]
    /\ UNCHANGED <<unidades_all, tablaJSON, tablaWritten, tablaLoaded>>

\* TablaMEoS.calculatePoint for a cell of the blank last row, the Point
\* being calculated with it (self.Point.status true)
calculatePoint(v) ==
    /\ tabla.some /\ ~tabla.readOnly
    /\ Len(tabla.data) < MaxRows
    /\ tabla' = [tabla EXCEPT !.data =
                     setRow(tabla.data, Len(tabla.data), PointRow(v, tabla.column))]
    /\ UNCHANGED <<unidades_all, tablaJSON, tablaWritten, tablaLoaded>>

\* the value of a column in another unit of its magnitude
Convert(value, from, to) == value + 100 * (to - from)

\* TablaMEoS.hHeaderClicked with the NumericFactor dialog accepted for
\* column col (from 0): the unit index and the format it returns
hHeaderClicked(col, order, fmt) ==
    /\ tabla.some /\ 0 <= col /\ col < tabla.column
    /\ LET k == col + 1
           change == tabla.units[k] # "Dimensionless" /\ order # tabla.orderUnit[k]
           t1 == IF change
                 THEN [tabla EXCEPT
                         !.data = [i \in 1..Len(tabla.data) |->
                                     [tabla.data[i] EXCEPT ![k] =
                                         Convert(tabla.data[i][k], tabla.orderUnit[k], order)]],
                         !.orderUnit[k] = order,
                         !.htitle[k] = <<tabla.htitle[k][1], <<tabla.units[k], order>>>>]
                 ELSE tabla
       IN tabla' = [t1 EXCEPT !.format[k] = fmt]
    /\ tabla' # tabla
    /\ UNCHANGED <<unidades_all, tablaJSON, tablaWritten, tablaLoaded>>

\* TablaMEoS.writeToJSON of the table of the window
writeToJSON ==
    /\ tabla.some
    /\ Len(unidades_all) < Len(UnitClasses) + MaxAppended
    /\ unidades_all' = Append(unidades_all, "Dimensionless")
    /\ tablaJSON' = TablaWriteToJSON(tabla, unidades_all')
    /\ tablaWritten' = tabla
    /\ tablaLoaded' = NoTabla
    /\ UNCHANGED tabla

\* TablaMEoS.readFromJSON of the dict written last: the project is loaded,
\* the table returned is the table of the window
readFromJSON ==
    /\ tablaJSON.some
    /\ Len(unidades_all) < Len(UnitClasses) + MaxAppended
    /\ unidades_all' = Append(unidades_all, "Dimensionless")
    /\ tablaLoaded' = TablaReadFromJSON(tablaJSON, unidades_all')
    /\ tabla' = tablaLoaded'
    /\ UNCHANGED <<tablaJSON, tablaWritten>>

\* ------------------------------------------------------------------ PlotMEoS
\* the text a line has none of
NoText == [some |-> FALSE, txt |-> <<>>, pos |-> 0, rot |-> 0, visible |-> FALSE]

NoGrafico ==
    [some |-> FALSE, filename |-> <<>>, x |-> "", y |-> "", z |-> "",
     config |-> NoConf, lines |-> <<>>]

NoPlotJSON ==
    [some |-> FALSE, filename |-> <<>>, x |-> "", y |-> "", z |-> "",
     fluid |-> -1, eq |-> -1, visco |-> -1, thermal |-> -1, lines |-> <<>>]

\* the points of a line, two of them: the data of key under the isoline or
\* phase n
LineData(key, n) == IF key = "" THEN <<>> ELSE <<<<key, n, 1>>, <<key, n, 2>>>>

\* plot2D3D: a saturation line, plotted without a text
SatLine(label, fase, x, y, z) ==
    [label |-> <<label, 0>>,
     x |-> LineData(x, fase), y |-> LineData(y, fase), z |-> LineData(z, fase),
     format |-> "saturation", visible |-> TRUE, text |-> NoText]

\* plotIsoline: the line of the isoline var = value with its text
Isoline(var, value, x, y, z) ==
    [label |-> <<var, value>>,
     x |-> LineData(x, value), y |-> LineData(y, value), z |-> LineData(z, value),
     format |-> var, visible |-> TRUE,
     text |-> [some |-> TRUE, txt |-> <<var, value>>, pos |-> 50, rot |-> 45,
               visible |-> TRUE]]

\* plot2D3D: the lines of a new plot, the data file holding one isotherm and
\* one isobar
plot2D3D(x, y, z) ==
    (IF x = "P" /\ y = "T"
     THEN <<SatLine("Saturation Line", 0, x, y, z)>>
     ELSE <<SatLine("Liquid Saturation Line", 0, x, y, z),
            SatLine("Vapor Saturation Line", 1, x, y, z)>>)
    \o (IF (x # "T" /\ y # "T") \/ z # "" THEN <<Isoline("T", 1, x, y, z)>> ELSE <<>>)
    \o (IF (x # "P" /\ y # "P") \/ z # "" THEN <<Isoline("P", 1, x, y, z)>> ELSE <<>>)

\* plugin.plot run to its end on stored data: the plot window it shows
plotWindow(x, y, z) ==
    /\ NoModal /\ CalcPlotEnabled(config)
    /\ ~plotJSON.some
    /\ grafico' =
          [some |-> TRUE,
           filename |-> FileName(getMethod(pref), getClassFluid(config)),
           x |-> x, y |-> y, z |-> z,
           config |-> [method |-> getMethod(pref),
                       fluid |-> getval(config, "fluid"),
                       eq |-> getval(config, "eq"),
                       visco |-> getval(config, "visco"),
                       thermal |-> getval(config, "thermal")],
           lines |-> plot2D3D(x, y, z)]
    /\ UNCHANGED <<plotJSON, plotWritten, plotLoaded>>

\* EditPlot.add with the AddLine dialog accepted: the isoline var = value
EditPlotAdd(var, value) ==
    /\ grafico.some
    /\ Len(grafico.lines) < MaxLines
    /\ grafico' = [grafico EXCEPT !.lines =
                       Append(grafico.lines,
                              Isoline(var, value, grafico.x, grafico.y, grafico.z))]
    /\ UNCHANGED <<plotJSON, plotWritten, plotLoaded>>

\* EditPlot.remove of the line at index of the list: del ax.lines[index+2]
EditPlotRemove(index) ==
    /\ grafico.some
    /\ index < Len(grafico.lines)
    /\ grafico' = [grafico EXCEPT !.lines =
                       SubSeq(grafico.lines, 1, index)
                       \o SubSeq(grafico.lines, index + 2, Len(grafico.lines))]
    /\ UNCHANGED <<plotJSON, plotWritten, plotLoaded>>

\* dict[key] = val on a dict kept as the sequence of its items in insertion
\* order
DictSet(d, key, val) ==
    IF \E i \in 1..Len(d) : d[i].key = key
    THEN [i \in 1..Len(d) |-> IF d[i].key = key THEN [key |-> key, val |-> val] ELSE d[i]]
    ELSE Append(d, [key |-> key, val |-> val])

\* PlotMEoS.writeToJSON: the dat dict of a line
LineToJSON(line) ==
    [x |-> line.x, y |-> line.y, label |-> line.label,
     format |-> line.format, visible |-> line.visible,
     annotation |-> IF line.text.some
                    THEN [visible |-> line.text.visible, txt |-> line.text.txt,
                          rot |-> line.text.rot, pos |-> line.text.pos]
                    ELSE [visible |-> FALSE, txt |-> <<>>, rot |-> 0, pos |-> 50]]

RECURSIVE LinesToJSON(_, _, _)
\* PlotMEoS.writeToJSON: lines[line._label] = dat for line in ax.lines[2:]
LinesToJSON(lines, i, d) ==
    IF i > Len(lines) THEN d
    ELSE LinesToJSON(lines, i + 1, DictSet(d, lines[i].label, LineToJSON(lines[i])))

\* PlotMEoS.writeToJSON: the dict it fills
PlotWriteToJSON(g) ==
    [some |-> TRUE, filename |-> g.filename, x |-> g.x, y |-> g.y, z |-> g.z,
     fluid |-> g.config.fluid, eq |-> g.config.eq,
     visco |-> g.config.visco, thermal |-> g.config.thermal,
     lines |-> LinesToJSON(g.lines, 1, <<>>)]

\* PlotMEoS.readFromJSON: the line plotted for an item of data["lines"]
LineFromJSON(label, dat) ==
    [label |-> label, x |-> dat.x, y |-> dat.y, z |-> <<>>,
     format |-> dat.format, visible |-> dat.visible,
     text |-> [some |-> TRUE, txt |-> dat.annotation.txt, pos |-> dat.annotation.pos,
               rot |-> dat.annotation.rot, visible |-> dat.annotation.visible]]

\* PlotMEoS.readFromJSON: the plot it returns
PlotReadFromJSON(d) ==
    [some |-> TRUE, filename |-> d.filename, x |-> d.x, y |-> d.y, z |-> d.z,
     config |-> [method |-> "", fluid |-> d.fluid, eq |-> d.eq,
                 visco |-> d.visco, thermal |-> d.thermal],
     lines |-> [i \in 1..Len(d.lines) |-> LineFromJSON(d.lines[i].key, d.lines[i].val)]]

\* PlotMEoS.writeToJSON of the plot of the window
plotWriteToJSON ==
    /\ grafico.some
    /\ plotJSON' = PlotWriteToJSON(grafico)
    /\ plotWritten' = grafico
    /\ plotLoaded' = NoGrafico
    /\ plotJSON' # plotJSON \/ plotWritten' # plotWritten \/ plotLoaded' # plotLoaded
    /\ UNCHANGED grafico

\* PlotMEoS.readFromJSON of the dict written last: the plot returned is the
\* plot of the window
plotReadFromJSON ==
    /\ plotJSON.some
    /\ plotLoaded' = PlotReadFromJSON(plotJSON)
    /\ grafico' = plotLoaded'
    /\ grafico' # grafico \/ plotLoaded' # plotLoaded
    /\ UNCHANGED <<plotJSON, plotWritten>>

\* ------------------------------------------------------------------ AddPoint
\* AddPoint.keys
AddPointKeys == <<"T", "P", "x", "rho", "v", "h", "s", "u">>

KeySet == {AddPointKeys[i] : i \in 1..Len(AddPointKeys)}

\* a fluid instance without input: no kwargs, status 0
FreshFluid == [kwargs |-> [k \in KeySet |-> 0], status |-> 0, msg |-> ""]

\* fluid.__getattribute__(key): the input given for it, or the value the
\* fluid calculated
Property(fl, key) == IF fl.kwargs[key] # 0 THEN fl.kwargs[key] ELSE 9

\* the status and msg a fluid call can leave
StatusMsg == {<<0, "undefined">>, <<1, "">>, <<3, "warning">>, <<5, "error">>}

\* fluid._Melting_Pressure(T)
_Melting_Pressure(T) == T

ClosedAddPoint ==
    [open |-> FALSE, melting |-> FALSE, fluid |-> FreshFluid,
     Inputs |-> [k \in KeySet |-> 0], status |-> <<0, "">>, updates |-> <<>>]

\* AddPoint.__init__: melting, the state of checkMelting
AddPointInit(melting) ==
    /\ ~addPoint.open /\ addPoint.updates = <<>>
    /\ addPoint' = [ClosedAddPoint EXCEPT !.open = TRUE, !.melting = melting,
                                          !.status = <<FreshFluid.status, FreshFluid.msg>>]

\* the user enters value in the input of key: valueChanged calls
\* AddPoint.update, which runs up to its processEvents
update(key, value) ==
    /\ addPoint.open
    /\ Len(addPoint.updates) < MaxUpdates
    /\ addPoint' = [addPoint EXCEPT !.Inputs[key] = value,
                                    !.status = <<4, "">>,
                                    !.updates = Append(@, [key |-> key, value |-> value])]

\* the test of fill on any status but 0
fillStatus_any(status) == status # 0

\* AddPoint.update: self.fluid.status in (1, 3)
fillStatus(status) == status \in {1, 3}

\* AddPoint.fill
fill(fl) == [k \in KeySet |-> Property(fl, k)]

\* AddPoint.update after its processEvents, the fluid call leaving sm
updateEnd(sm) ==
    /\ Len(addPoint.updates) > 0
    /\ LET u == addPoint.updates[Len(addPoint.updates)]
           kw == IF addPoint.melting /\ u.key = "T"
                 THEN [addPoint.fluid.kwargs EXCEPT !["T"] = u.value,
                                                    !["P"] = _Melting_Pressure(u.value)]
                 ELSE [addPoint.fluid.kwargs EXCEPT ![u.key] = u.value]
           fl == [kwargs |-> kw, status |-> sm[1], msg |-> sm[2]]
       IN addPoint' = [addPoint EXCEPT
              !.fluid = fl,
              !.Inputs = IF fillStatus(fl.status) THEN fill(fl) ELSE @,
              !.status = <<fl.status, fl.msg>>,
              !.updates = SubSeq(@, 1, Len(@) - 1)]

\* AddPoint.reset
reset ==
    /\ addPoint.open
    /\ addPoint' = [addPoint EXCEPT !.fluid = FreshFluid,
                                    !.status = <<FreshFluid.status, FreshFluid.msg>>,
                                    !.Inputs = [k \in KeySet |-> 0]]
    /\ addPoint' # addPoint

\* AddPoint.click on Ok or Cancel: the dialog closes
AddPointClose ==
    /\ addPoint.open
    /\ addPoint.updates = <<>>
    /\ addPoint' = ClosedAddPoint

\* ----------------------------------------------- calcPoint and calcIsoline
\* fluid.eq[option["eq"]] of a mEoS fluid: Tmin, Tmax in K, Pmax in kPa
MEoSEq == [Tmin |-> 10, Tmax |-> 40, Pmax |-> 1]

\* fluid(T=Tmin, x=0).P, the saturation pressure at Tmin
MEoSPmin == [P |-> 5]

\* fluid.eq of a CoolProp fluid
CoolPropEq == [Tmin |-> 10, Tmax |-> 40, Pmin |-> 5, Pmax |-> 1000]

\* fluido._melting of a mEoS fluid with a melting line
_melting == [Tmin |-> 20, Tmax |-> 30]

\* the local names Tmin, Tmax, Pmin, Pmax of calcPoint after the branch on
\* the method: the REFPROP branch is "pass" and binds none of them
Limits(method) ==
    IF method = "MEOS"
    THEN [bound |-> TRUE, Tmin |-> MEoSEq.Tmin, Tmax |-> MEoSEq.Tmax,
          Pmin |-> MEoSPmin.P, Pmax |-> MEoSEq.Pmax * 1000]
    ELSE IF method = "COOLPROP"
    THEN [bound |-> TRUE, Tmin |-> CoolPropEq.Tmin, Tmax |-> CoolPropEq.Tmax,
          Pmin |-> CoolPropEq.Pmin, Pmax |-> CoolPropEq.Pmax]
    ELSE [bound |-> FALSE, Tmin |-> 0, Tmax |-> 0, Pmin |-> 0, Pmax |-> 0]

Min2(a, b) == IF a <= b THEN a ELSE b

NoState == [status |-> 0, T |-> 0, P |-> 0, rho |-> 0]

\* the outcomes of a call: None, a state, or an UnboundLocalError
ReturnNone == [kind |-> "None", fluido |-> NoState]

ReturnState(fl) == [kind |-> "state", fluido |-> fl]

RaiseUnbound == [kind |-> "UnboundLocalError", fluido |-> NoState]

\* Pmax after the melting test of the MEOS branch
PmaxMelting(method, lim, fl) ==
    IF method = "MEOS" /\ _melting.Tmin <= fl.T /\ fl.T <= _melting.Tmax
    THEN Min2(lim.Pmax, _Melting_Pressure(fl.T))
    ELSE lim.Pmax

\* calcPoint(fluid, config, **kwargs); fl is the state fluid._new(**kwargs)
\* gives
calcPoint(method, kwargs, fl) ==
    LET lim == Limits(method)
        Pmax == PmaxMelting(method, lim, fl)
    IN  IF kwargs.hasT /\ ~lim.bound THEN RaiseUnbound
        ELSE IF kwargs.hasT /\ (kwargs.T < lim.Tmin \/ kwargs.T > lim.Tmax)
        THEN ReturnNone
        ELSE IF kwargs.hasP /\ ~lim.bound THEN RaiseUnbound
        ELSE IF kwargs.hasP
                /\ (kwargs.P < lim.Pmin - 1 \/ kwargs.P > lim.Pmax + 1)
        THEN ReturnNone
        ELSE IF fl.status \notin {1, 3} THEN ReturnNone
        ELSE IF ~lim.bound THEN RaiseUnbound
        ELSE IF \/ fl.P < lim.Pmin - 1
                \/ fl.P > Pmax + 1
                \/ fl.T < lim.Tmin
                \/ fl.T > lim.Tmax
        THEN ReturnNone
        ELSE ReturnState(fl)

\* the temperatures and pressures tried: around each limit of the range
TValues ==
    {MEoSEq.Tmin - 1, MEoSEq.Tmin, _melting.Tmin, MEoSEq.Tmax,
     MEoSEq.Tmax + 1}

PValues ==
    {MEoSPmin.P - 2, MEoSPmin.P - 1, MEoSPmin.P,
     _Melting_Pressure(_melting.Tmin) + 1, _Melting_Pressure(_melting.Tmin) + 2,
     MEoSEq.Pmax * 1000 + 1, MEoSEq.Pmax * 1000 + 2}

\* the keyword arguments T and P of a call
Kwargs(hasT, T, hasP, P) == [hasT |-> hasT, T |-> T, hasP |-> hasP, P |-> P]

\* the temperatures and pressures the library computes when not given
TFree == {MEoSEq.Tmin, _melting.Tmin, MEoSEq.Tmax + 1}

PFree ==
    {MEoSPmin.P, _Melting_Pressure(_melting.Tmin) + 2, MEoSEq.Pmax * 1000 + 2}

\* the states fluid._new(**kwargs) can give: the library keeps a given T and
\* P and computes the others
_new(kwargs) ==
    {[status |-> st, T |-> t, P |-> p, rho |-> r] :
        st \in {0, 1, 3, 5},
        t \in IF kwargs.hasT THEN {kwargs.T} ELSE TFree,
        p \in IF kwargs.hasP THEN {kwargs.P} ELSE PFree,
        r \in {1, 2}}

NoIsoline ==
    [active |-> FALSE, raised |-> FALSE, var |-> "", fix |-> "", vfix |-> 0,
     vvar |-> <<>>, i |-> 0, fluidos |-> <<>>, rhoo |-> 0, To |-> 0,
     method |-> "", last |-> ReturnNone]

\* calcIsoline entered: nothing calculated yet
calcIsoline(var, fix, vvar, vfix) ==
    /\ ~iso.active
    /\ iso' = [active |-> TRUE, raised |-> FALSE, var |-> var, fix |-> fix,
               vfix |-> vfix, vvar |-> vvar, i |-> 1, fluidos |-> <<>>,
               rhoo |-> 0, To |-> 0, method |-> "", last |-> ReturnNone]

\* kwargs = {var: Ti, fix: vfix, "rho0": rhoo, "T0": To}
IsolineKwargs(var, fix, Ti, vfix) ==
    Kwargs(var = "T" \/ fix = "T",
           IF var = "T" THEN Ti ELSE IF fix = "T" THEN vfix ELSE 0,
           var = "P" \/ fix = "P",
           IF var = "P" THEN Ti ELSE IF fix = "P" THEN vfix ELSE 0)

\* one pass of the loop "for Ti in vvar", up to processEvents
calcIsolineStep(fl) ==
    /\ iso.active
    /\ iso.i <= Len(iso.vvar)
    /\ LET kwargs == IsolineKwargs(iso.var, iso.fix, iso.vvar[iso.i], iso.vfix)
           r == calcPoint(getMethod(pref), kwargs, fl)
           fluido == r.fluido
           kept == /\ r.kind = "state"
                   /\ fluido.status # 0
                   /\ (fluido.rho # iso.rhoo \/ fluido.T # iso.To)
           moves == iso.var \notin {"T", "P"} \/ iso.fix \notin {"T", "P"}
       IN  /\ fl \in _new(kwargs)
           /\ iso' =
                IF r.kind = "UnboundLocalError"
                THEN [iso EXCEPT !.active = FALSE, !.raised = TRUE,
                                 !.method = getMethod(pref), !.last = r]
                ELSE [iso EXCEPT
                        !.i = @ + 1,
                        !.method = getMethod(pref),
                        !.last = r,
                        !.fluidos = IF kept THEN Append(@, fluido) ELSE @,
                        !.rhoo = IF kept /\ moves THEN fluido.rho ELSE @,
                        !.To = IF kept /\ moves THEN fluido.T ELSE @]

\* "return fluidos"
calcIsolineReturn ==
    /\ iso.active
    /\ iso.i > Len(iso.vvar)
    /\ iso' = [iso EXCEPT !.active = FALSE]

CalcIdle == iso = NoIsoline


\* ------------------------------------------- the rows of the table widget
\* representacion(data, **format): the text of a cell
representacion(d, fmt) == <<d, fmt>>

\* TablaMEoS.setStr: the rows of the widget after it, rows being the rows
\* before: a row is added for each stored row beyond rowCount, the rows
\* beyond the stored ones stay
setStr(rows, t) ==
    [i \in 1..(IF Len(rows) > Len(t.data) THEN Len(rows) ELSE Len(t.data)) |->
        IF i <= Len(t.data)
        THEN [k \in 1..Len(t.data[i]) |-> representacion(t.data[i][k], t.format[k])]
        ELSE rows[i]]

\* QTableWidget.removeRow(row), del list[row], numpy.delete(array, row)
removeRow(seq, row) == SubSeq(seq, 1, row) \o SubSeq(seq, row + 2, Len(seq))

RECURSIVE deleteRows(_, _)
\* "for row in rows" of delete, rows holding the selected rows in
\* descending order (vHeaderClicked sorts them in reverse)
deleteRows(seq, rows) ==
    IF rows = {} THEN seq
    ELSE LET row == CHOOSE r \in rows : \A q \in rows : q <= r
         IN deleteRows(removeRow(seq, row), rows \ {row})

\* ThermoAdvanced.propertiesKey(), the keys the data file holds lists of
propertiesKey == {"T", "P", "rho", "s"}

NoWidget == [rows |-> <<>>, raised |-> ""]

NoLineFile == [x \in propertiesKey |-> <<>>]

\* meos.units[meos.keys.index(key)]
KeyUnit(key) ==
    IF key = "T" THEN "Temperature" ELSE IF key = "P" THEN "Pressure"
    ELSE IF key = "rho" THEN "Density" ELSE "SpecificHeat"

\* PlotMEoS.table(obj) for the line i of the plot: a read-only table of the
\* data of the line, titled "Table from <label>"; lineFile stands for the
\* lists of that line in the data file of the plot
table(i) ==
    /\ grafico.some /\ ~tabla.some
    /\ i \in 1..Len(grafico.lines)
    /\ LET line == grafico.lines[i]
           keys == IF grafico.z = "" THEN <<grafico.x, grafico.y>>
                   ELSE <<grafico.x, grafico.y, grafico.z>>
           data == [k \in 1..Len(line.x) |->
                      IF grafico.z = "" THEN <<line.x[k], line.y[k]>>
                      ELSE <<line.x[k], line.y[k], line.z[k]>>]
       IN  /\ tabla' =
                [some |-> TRUE,
                 title |-> <<"Table from", line.label>>,
                 column |-> Len(keys),
                 htitle |-> [k \in 1..Len(keys) |->
                               <<keys[k], <<KeyUnit(keys[k]), 0>>>>],
                 units |-> [k \in 1..Len(keys) |-> KeyUnit(keys[k])],
                 orderUnit |-> [k \in 1..Len(keys) |-> 0],
                 format |-> [k \in 1..Len(keys) |-> DefaultFormat],
                 readOnly |-> TRUE,
                 data |-> data,
                 keys |-> <<>>,
                 columnReadOnly |-> <<>>,
                 Point |-> NoPoint]
           /\ widget' = [rows |-> setStr(<<>>, tabla'), raised |-> ""]
           /\ lineFile' = [x \in propertiesKey |-> LineData(x, line.label[2])]
    /\ UNCHANGED <<unidades_all, tablaJSON, tablaWritten, tablaLoaded>>
    /\ UNCHANGED jsonVars

\* the table was exported from a plot line: pref in self.windowTitle()
FromLine(t) == Len(t.title) = 2 /\ t.title[1] = "Table from"

\* TablaMEoS.delete(rows), rows being the set of the selected rows (from 0):
\* the rows leave the widget; numpy's delete(self.data, row) returns a copy
\* that is dropped, self.data stays; with a plot in the project the rows
\* leave the lists of the data file and the x and y data of the line
delete(rows) ==
    /\ tabla.some /\ widget.raised = ""
    /\ rows # {} /\ rows \subseteq 0..(Len(widget.rows) - 1)
    /\ LET shown == deleteRows(widget.rows, rows)
           short == \E x \in propertiesKey, r \in rows : r >= Len(lineFile[x])
           label == tabla.title[2]
           l == CHOOSE i \in 1..Len(grafico.lines) :
                    /\ grafico.lines[i].label = label
                    /\ \A j \in 1..(i - 1) : grafico.lines[j].label # label
       IN  IF ~grafico.some
           THEN /\ widget' = [widget EXCEPT !.rows = shown]
                /\ UNCHANGED <<lineFile, grafico>>
           ELSE IF ~FromLine(tabla) \/ short
           THEN /\ widget' = [rows |-> shown, raised |-> "IndexError"]
                /\ UNCHANGED <<lineFile, grafico>>
           ELSE /\ widget' = [widget EXCEPT !.rows = shown]
                /\ lineFile' = [x \in propertiesKey |-> deleteRows(lineFile[x], rows)]
                /\ grafico' =
                     IF \E i \in 1..Len(grafico.lines) : grafico.lines[i].label = label
                     THEN [grafico EXCEPT
                             !.lines[l].x = deleteRows(@, rows),
                             !.lines[l].y = deleteRows(@, rows)]
                     ELSE grafico
    /\ UNCHANGED tabVars
    /\ UNCHANGED <<plotJSON, plotWritten, plotLoaded>>

\* the value of property x of the state the AddPoint dialog calculated
FluidValue(x, v) == <<x, v, 0>>

\* the cells setRow writes for data in a table of ncol columns
RowText(t, data) ==
    [k \in 1..t.column |->
        IF k <= Len(data) THEN representacion(data[k], t.format[k]) ELSE <<>>]

\* TablaMEoS.add(row) with the AddPoint dialog accepted, v standing for the
\* state it calculated and below for its check box. A table PlotMEoS.table
\* made has no Point attribute: self.Point._new() raises before the dialog
\* opens. Under a title without "Table from " the name title stays unbound.
\* The branches of the sublimation and saturation lines call insert on the
\* dict of the line
add(row, below, v) ==
    /\ tabla.some /\ widget.raised = ""
    /\ row \in 0..(Len(widget.rows) - 1)
    /\ Len(widget.rows) <= MaxRows /\ Len(tabla.data) <= MaxRows
    /\ LET r == IF below THEN row + 1 ELSE row
           datatoTable ==
               IF grafico.some
               THEN <<FluidValue(grafico.x, v), FluidValue(grafico.y, v)>>
               ELSE PointRow(v, tabla.column)
           shown == Insert(widget.rows, r, RowText(tabla, datatoTable))
           stored == [tabla EXCEPT !.data = setRow(@, r, datatoTable)]
           label == tabla.title[2]
           listed == label[1] \in {"Melting Line", "T", "P"}
           l == CHOOSE i \in 1..Len(grafico.lines) :
                    /\ grafico.lines[i].label = label
                    /\ \A j \in 1..(i - 1) : grafico.lines[j].label # label
       IN  IF tabla.Point = NoPoint
           THEN /\ widget' = [widget EXCEPT !.raised = "AttributeError"]
                /\ UNCHANGED <<tabla, lineFile, grafico>>
           ELSE IF ~grafico.some
           THEN /\ widget' = [widget EXCEPT !.rows = shown]
                /\ tabla' = stored
                /\ UNCHANGED <<lineFile, grafico>>
           ELSE IF ~FromLine(tabla)
           THEN /\ widget' = [widget EXCEPT !.rows = shown,
                                           !.raised = "UnboundLocalError"]
                /\ tabla' = stored
                /\ UNCHANGED <<lineFile, grafico>>
           ELSE IF ~listed
           THEN /\ widget' = [widget EXCEPT !.rows = shown,
                                           !.raised = "AttributeError"]
                /\ tabla' = stored
                /\ UNCHANGED <<lineFile, grafico>>
           ELSE /\ widget' = [widget EXCEPT !.rows = shown]
                /\ tabla' = stored
                /\ lineFile' = [x \in propertiesKey |->
                                  Insert(lineFile[x], r, FluidValue(x, v))]
                /\ grafico' =
                     IF \E i \in 1..Len(grafico.lines) : grafico.lines[i].label = label
                     THEN [grafico EXCEPT
                             !.lines[l].x = Insert(@, r, datatoTable[1]),
                             !.lines[l].y = Insert(@, r, datatoTable[2])]
                     ELSE grafico
    /\ UNCHANGED <<unidades_all, tablaJSON, tablaWritten, tablaLoaded>>
    /\ UNCHANGED <<plotJSON, plotWritten, plotLoaded>>

NoPending == [kwargs |-> {}, cursor |-> <<-1, -1>>, calculated |-> <<>>]

\* the inputs of self.Point after self.Point(**{key: value})
PointCall(kwargs, key, value) ==
    {p \in kwargs : p[1] # key} \cup {<<key, value>>}

\* the inputs of the Point kept in place of a new one
freshPoint_kept(kwargs) == kwargs

\* self.Point = self.Point._new(): a point of the same fluid without inputs
freshPoint(kwargs) == {}

\* the cell can be edited: its column takes input and setRow has not
\* written the row
Editable(row, column) ==
    /\ row < Len(widget.rows) /\ column < tabla.column
    /\ ~tabla.columnReadOnly[column + 1]
    /\ Len(widget.rows[row + 1][column + 1]) < 2

\* the cellChanged signal of a specified-point table, the user having
\* edited the cell to txt (<<>> for no text): TablaMEoS.calculatePoint(row,
\* column); status tells whether the library finds the point defined by the
\* inputs given so far; calculated lists the points calculated
cellChanged(row, column, txt, status) ==
    /\ tabla.some /\ ~tabla.readOnly /\ widget.raised = ""
    /\ Editable(row, column)
    /\ LET edited == [widget.rows EXCEPT ![row + 1][column + 1] = txt]
           key == tabla.keys[column + 1]
           kwargs == PointCall(pending.kwargs, key, txt[1])
           data == PointRow(txt[1], tabla.column)
       IN  IF txt = <<>>
           THEN /\ widget' = [widget EXCEPT !.rows = edited]
                /\ UNCHANGED <<tabla, pending>>
           ELSE IF ~status
           THEN /\ widget' = [widget EXCEPT !.rows = edited]
                /\ pending' = [pending EXCEPT !.kwargs = kwargs]
                /\ UNCHANGED tabla
           ELSE /\ Len(tabla.data) < MaxRows
                /\ tabla' = [tabla EXCEPT !.data = setRow(@, row, data)]
                /\ widget' = [widget EXCEPT !.rows =
                                 Append([edited EXCEPT ![row + 1] = RowText(tabla, data)],
                                        [k \in 1..tabla.column |-> <<>>])]
                /\ pending' = [kwargs |-> freshPoint(kwargs),
                               cursor |-> <<row + 1, column>>,
                               calculated |-> Append(pending.calculated, data)]
    /\ UNCHANGED <<unidades_all, tablaJSON, tablaWritten, tablaLoaded, lineFile>>

\* ------------------------------------------- the lists createTabla builds
\* key in ThermoAdvanced.propertiesPhase(), key being <<"key", i>>
KeyPhase(key) == key[1] = "key" /\ propertiesPhase(key[2])

\* the entries an entry of a phase property is replaced by, two in place of
\* three
Triple_pair(list, e) == <<e, e>>

\* the entries an entry of a phase property is replaced by: in propiedades
\* the title and the title under "Liquid" and "Vapour", in units the unit
\* three times, in keys the key and two empty keys
Triple(list, e) ==
    IF list = "propiedades" THEN <<e, <<"Liquid", e>>, <<"Vapour", e>>>>
    ELSE IF list = "units" THEN <<e, e, e>>
    ELSE <<e, <<"", 0>>, <<"", 0>>>>

RECURSIVE ExpandPhase(_, _, _, _)
\* "for i in range(len(propiedades)-1, -1, -1): if keys[i] in
\* propertiesPhase(): l[i:i+1] = ..." from entry i (from 1) down
ExpandPhase(list, l, keys, i) ==
    IF i = 0 THEN l
    ELSE ExpandPhase(list,
                     IF KeyPhase(keys[i])
                     THEN SubSeq(l, 1, i - 1) \o Triple(list, l[i])
                          \o SubSeq(l, i + 1, Len(l))
                     ELSE l,
                     keys, i - 1)

RECURSIVE columnInput(_, _, _)
\* createTabla: columnInput of a dynamic table, from key i on
columnInput(keys, phase, i) ==
    IF i > Len(keys) THEN <<>>
    ELSE <<~IsInputKey(keys[i][2])>>
         \o (IF phase /\ KeyPhase(keys[i]) THEN <<TRUE, TRUE>> ELSE <<>>)
         \o columnInput(keys, phase, i + 1)

RECURSIVE _getDataFila(_, _, _, _)
\* _getData(fluid, keys, phase): the row of the state fluid, from key i on;
\* an empty key is skipped, a phase property gives three values
_getDataFila(fluid, keys, phase, i) ==
    IF i > Len(keys) THEN <<>>
    ELSE (IF keys[i][1] = "" THEN <<>>
          ELSE <<(<<fluid, keys[i], "">>)>>
               \o (IF phase /\ KeyPhase(keys[i])
                   THEN <<(<<fluid, keys[i], "Liquido">>), <<fluid, keys[i], "Gas">>>>
                   ELSE <<>>))
         \o _getDataFila(fluid, keys, phase, i + 1)

NoBuilt ==
    [some |-> FALSE, filled |-> FALSE, selected |-> <<>>, column |-> 0,
     propiedades |-> <<>>, units |-> <<>>, keys |-> <<>>,
     columnReadOnly |-> <<>>, data |-> <<>>]

\* createTabla(config, title, fluidos): the header titles, units, keys and
\* columnReadOnly it passes to TablaMEoS and the rows it sets; a dynamic
\* table gets its rows from _getData with the keys of the table
createTablaLists(c, fluidos) ==
    LET selected == get_propiedades(c)
        keys == [j \in 1..Len(selected) |-> properties(selected[j]).key]
        units == [j \in 1..Len(selected) |-> properties(selected[j]).unit]
        titled == [j \in 1..Len(selected) |->
                     <<properties(selected[j]).name, UnitText(units[j], 0)>>]
        phase == getboolean(c, "phase")
        propiedades == IF phase
                       THEN ExpandPhase("propiedades", titled, keys, Len(titled))
                       ELSE titled
        units3 == IF phase THEN ExpandPhase("units", units, keys, Len(titled))
                  ELSE units
        keys3 == IF phase THEN ExpandPhase("keys", keys, keys, Len(keys)) ELSE keys
    IN  IF Len(fluidos) > 0
        THEN [some |-> TRUE, filled |-> TRUE, selected |-> selected,
              column |-> Len(propiedades),
              propiedades |-> propiedades, units |-> units3, keys |-> keys,
              columnReadOnly |-> <<>>,
              data |-> [i \in 1..Len(fluidos) |->
                          _getDataFila(fluidos[i], keys, phase, 1)]]
        ELSE [some |-> TRUE, filled |-> FALSE, selected |-> selected,
              column |-> Len(propiedades),
              propiedades |-> propiedades, units |-> units3, keys |-> keys3,
              columnReadOnly |-> columnInput(keys, phase, 1),
              data |-> <<_getDataFila(0, keys3, phase, 1)>>]

RowIdle ==
    /\ built = NoBuilt
    /\ pending = NoPending
    /\ widget = NoWidget
    /\ lineFile = NoLineFile


\* ---------------------------------------------------------- Plot3D dialog
\* len(ThermoAdvanced.propertiesKey()), the properties a plot axis can show
PropCount == N_PROP + 2

\* ThermoAdvanced.propertiesName() and propertiesKey() by index
AllProps == [i \in 1..PropCount |-> i - 1]

\* del list[idx], idx negative counting from the end
Del(seq, idx) == removeRow(seq, IF idx < 0 THEN Len(seq) + idx ELSE idx)

\* QComboBox.setCurrentIndex: an index out of range leaves no current item
setCurrentIndex(items, idx) == IF 0 <= idx /\ idx < Len(items) THEN idx ELSE -1

\* list[idx] of Python
PyItem(seq, idx) == seq[(IF idx < 0 THEN Len(seq) + idx ELSE idx) + 1]

ClosedPlot3D ==
    [open |-> FALSE, X |-> -1, itemsY |-> <<>>, Y |-> -1, itemsZ |-> <<>>,
     Z |-> -1, called |-> <<>>]

\* Plot3D.ejeYChanged(indY): ejeZ refilled with all the properties but the
\* one of ejeX and the entry indY of the rest, its index restored
ejeYChanged(d, indY) ==
    LET current == IF d.Z = -1 THEN 0 ELSE d.Z
        prop2 == Del(Del(AllProps, d.X), indY)
        target == IF d.X = 0 /\ indY = 0 /\ current = 0 THEN 0
                  ELSE IF indY <= current \/ d.X <= current THEN current
                  ELSE current + 1
    IN  [d EXCEPT !.itemsZ = prop2, !.Z = setCurrentIndex(prop2, target)]

\* Plot3D.ejeXChanged(index): ejeY refilled with all the properties but the
\* entry index, its index restored; ejeY emits currentIndexChanged when
\* clear() leaves it without a current item, when the first addItem makes
\* entry 0 current and when setCurrentIndex changes the index, and each
\* signal runs ejeYChanged
ejeXChanged(d, index) ==
    LET current == IF d.Y = -1 THEN 0 ELSE d.Y
        cleared == IF d.Y = -1 THEN d
                   ELSE ejeYChanged([d EXCEPT !.itemsY = <<>>, !.Y = -1], -1)
        props == Del(AllProps, index)
        added == ejeYChanged([cleared EXCEPT !.itemsY = props, !.Y = 0], 0)
        target == IF index = 0 /\ current = 0 THEN 0
                  ELSE IF index <= current THEN current
                  ELSE current + 1
        newY == setCurrentIndex(props, target)
    IN  IF newY = 0 THEN added
        ELSE ejeYChanged([added EXCEPT !.Y = newY], newY)

\* plugin.plot3D up to dlg.exec_(): Plot3D.__init__ fills ejeX and calls
\* ejeXChanged(0)
plot3D ==
    /\ NoModal /\ ~plot3d.open
    /\ plot3d' = ejeXChanged([ClosedPlot3D EXCEPT !.open = TRUE, !.X = 0], 0)
    /\ UNCHANGED <<cfgVars, plotVars>>

\* the user selects entry i of ejeX
selectX(i) ==
    /\ plot3d.open /\ i # plot3d.X
    /\ plot3d' = ejeXChanged([plot3d EXCEPT !.X = i], i)
    /\ UNCHANGED <<cfgVars, plotVars>>

\* the user selects entry j of ejeY
selectY(j) ==
    /\ plot3d.open /\ j # plot3d.Y /\ j < Len(plot3d.itemsY)
    /\ plot3d' = ejeYChanged([plot3d EXCEPT !.Y = j], j)
    /\ UNCHANGED <<cfgVars, plotVars>>

\* the user selects entry k of ejeZ
selectZ(k) ==
    /\ plot3d.open /\ k # plot3d.Z /\ k < Len(plot3d.itemsZ)
    /\ plot3d' = [plot3d EXCEPT !.Z = k]
    /\ UNCHANGED <<cfgVars, plotVars>>

\* the index of ejeZ as plot3D shifts it over the entries of ejeX and ejeY
ShiftZ(i, j, k) ==
    LET k1 == IF k >= i THEN k + 1 ELSE k
    IN  IF k1 >= j THEN k1 + 1 ELSE k1

\* plugin.plot3D with the dialog accepted: the keys x, y, z it passes to
\* self.plot
plot3DAccept ==
    /\ plot3d.open
    /\ LET i == plot3d.X
           j == plot3d.Y
           k == ShiftZ(i, j, plot3d.Z)
           j1 == IF j >= i THEN j + 1 ELSE j
           x == properties(PyItem(AllProps, i)).key
           y == properties(PyItem(AllProps, j1)).key
           z == properties(PyItem(AllProps, k)).key
       IN  /\ plot3d' = [plot3d EXCEPT !.open = FALSE, !.called = <<x, y, z>>]
           /\ plot(x, y, z)

\* the dialog rejected
plot3DReject ==
    /\ plot3d.open
    /\ plot3d' = ClosedPlot3D
    /\ UNCHANGED <<cfgVars, plotVars>>

ClosedProperties ==
    [open |-> FALSE, text |-> <<>>, name |-> <<>>, order |-> <<>>,
     current |-> -1, Arriba |-> TRUE, Abajo |-> TRUE, raised |-> "",
     clicked |-> [fila |-> -1, txt |-> ""]]

\* Ui_Properties.comprobarBotones(fila)
comprobarBotones(d, fila) ==
    [d EXCEPT !.current = fila,
              !.Arriba = fila >= 1,
              !.Abajo = fila < Len(d.text) - 1]

\* Ui_Properties.__init__ and exec_(): column 0 holds "1" for a checked row
\* and "" for the others, column 1 the name of property order[i]; shown, the
\* table takes the focus and makes its first cell current, which runs
\* comprobarBotones(0)
Ui_Properties ==
    /\ NoModal /\ ~propDlg.open
    /\ LET stored == has_option(config, "properties")
           values == IF stored THEN getval(config, "properties") ELSE _default
           order == IF stored THEN getval(config, "propertiesOrder") ELSE RangeNProp
       IN  propDlg' = comprobarBotones(
                [open |-> TRUE,
                 text |-> [i \in 1..Len(values) |-> IF values[i] = 1 THEN "1" ELSE ""],
                 name |-> [i \in 1..Len(values) |-> order[i]],
                 order |-> order,
                 current |-> -1, Arriba |-> TRUE, Abajo |-> TRUE, raised |-> "",
                 clicked |-> [fila |-> -1, txt |-> ""]], 0)
    /\ UNCHANGED cfgVars

\* the user makes row fila current: currentCellChanged
currentCellChanged(fila) ==
    /\ propDlg.open /\ propDlg.raised = ""
    /\ fila < Len(propDlg.text) /\ fila # propDlg.current
    /\ propDlg' = comprobarBotones(propDlg, fila)
    /\ UNCHANGED cfgVars

\* the text toggleCheck writes over txt
toggleText(txt) == IF txt = "0" THEN "1" ELSE ""

\* Ui_Properties.toggleCheck(fila, columna); clicked keeps the row of the
\* last double click and the text it had
toggleCheck(fila) ==
    /\ propDlg.open /\ propDlg.raised = ""
    /\ fila < Len(propDlg.text)
    /\ propDlg' = [propDlg EXCEPT
                     !.text[fila + 1] = toggleText(@),
                     !.clicked = [fila |-> fila, txt |-> propDlg.text[fila + 1]]]
    /\ UNCHANGED cfgVars

\* a, b = b, a on the entries i and j (from 0) of a list
Swap(seq, i, j) == [seq EXCEPT ![i + 1] = seq[j + 1], ![j + 1] = seq[i + 1]]

\* the order left as it was
moveOrder_kept(order, i, j) == order

\* self.order[i], self.order[j] = self.order[j], self.order[i]
moveOrder(order, i, j) == Swap(order, i, j)

\* Ui_Properties.Down and Up, j being the row the current row i changes
\* places with: prop.item(j, 0) is None when there is no row j
Move(j) ==
    LET i == propDlg.current
    IN  IF i < 0 \/ j < 0 \/ i >= Len(propDlg.text) \/ j >= Len(propDlg.text)
        THEN [propDlg EXCEPT !.raised = "AttributeError"]
        ELSE comprobarBotones(
                [propDlg EXCEPT !.text = Swap(@, i, j),
                                !.name = Swap(@, i, j),
                                !.clicked = [fila |-> -1, txt |-> ""],
                                !.order = moveOrder(@, i, j)], j)

\* a click on ButtonAbajo
Down ==
    /\ propDlg.open /\ propDlg.raised = "" /\ propDlg.Abajo
    /\ propDlg' = Move(propDlg.current + 1)
    /\ UNCHANGED cfgVars

\* a click on ButtonArriba
Up ==
    /\ propDlg.open /\ propDlg.raised = "" /\ propDlg.Arriba
    /\ propDlg' = Move(propDlg.current - 1)
    /\ UNCHANGED cfgVars

\* Ui_Properties.buttonClicked for Reset, "No Mark" and "Mark all"
buttonClicked(boton) ==
    /\ propDlg.open /\ propDlg.raised = ""
    /\ LET values == IF boton = "Reset" THEN _default
                     ELSE [i \in 1..N_PROP |-> IF boton = "No Mark" THEN 0 ELSE 1]
       IN  propDlg' = [propDlg EXCEPT
                         !.text = [i \in 1..Len(values) |->
                                     IF values[i] = 1 THEN "1" ELSE ""],
                         !.clicked = [fila |-> -1, txt |-> ""]]
    /\ propDlg' # propDlg
    /\ UNCHANGED cfgVars

\* the dialog accepted: plugin.showProperties stores the marks, the phase
\* check box and the order
propertiesAccept(fase) ==
    /\ propDlg.open
    /\ propDlg' = ClosedProperties
    /\ showPropertiesAccept("Menu",
            [i \in 1..Len(propDlg.text) |-> IF propDlg.text[i] = "" THEN 0 ELSE 1],
            fase, propDlg.order)

\* the dialog rejected
propertiesReject ==
    /\ propDlg.open
    /\ propDlg' = ClosedProperties
    /\ showPropertiesReject("Menu")

\* ------------------------------------------- saturation and isoproperty tables
\* Ui_Isoproperty.propiedades and the entry Quality actualizarUI appends
propiedades ==
    <<"Temperature", "Pressure", "Density", "Volume", "Enthalpy", "Entropy",
      "Internal Energy">>

Quality == "Quality"

\* Ui_Isoproperty.keys
IsopropertyKeys == <<"T", "P", "rho", "v", "h", "s", "u", "x">>

\* numpy.arange(start, end, incr) closed at end
arange_closed(start, end, incr) ==
    LET n == IF end >= start THEN (end - start) \div incr + 1 ELSE 0
    IN  [k \in 1..n |-> start + (k - 1) * incr]

\* numpy.arange(start, end, incr) for incr > 0: the values start + k*incr
\* below end
arange(start, end, incr) ==
    LET n == IF end > start THEN (end - start + incr - 1) \div incr ELSE 0
    IN  [k \in 1..n |-> start + (k - 1) * incr]

\* value = arange(start, end, incr), end appended when (end-start) % incr == 0
RangeValues(start, end, incr) ==
    IF (end - start) % incr = 0
    THEN Append(arange(start, end, incr), end)
    ELSE arange(start, end, incr)

\* the two dialogs and what the last accepted one calculated: the kwargs of
\* the states in fluidos, the names of the fixed and the varied property and
\* the text the Vary combo box showed
ClosedRange ==
    [open |-> "", VL |-> TRUE, SL |-> FALSE, SV |-> FALSE, var |-> "T",
     fix |-> 0, vary |-> <<>>, varyIndex |-> -1,
     done |-> "", start |-> 0, end |-> 0, incr |-> 1, value |-> <<>>,
     fluidos |-> <<>>, X |-> "", Y |-> "", shown |-> ""]

\* Ui_Isoproperty.actualizarUI: the Vary combo box is filled again without
\* the fixed property, its first entry becoming the current one
actualizarUI(d, indice) ==
    LET all == IF indice <= 1 THEN Append(propiedades, Quality) ELSE propiedades
    IN  [d EXCEPT !.fix = indice, !.vary = Del(all, indice), !.varyIndex = 0]

\* plugin.showIsoproperty up to dlg.exec_(): Ui_Isoproperty.__init__
showIsoproperty ==
    /\ NoModal /\ CalcPlotEnabled(config)
    /\ rangeDlg.open = ""
    /\ rangeDlg' = actualizarUI([ClosedRange EXCEPT !.open = "Isoproperty"], 0)
    /\ UNCHANGED tabVars

\* the user picks an entry of the Hold constant combo box
fixChanged(indice) ==
    /\ rangeDlg.open = "Isoproperty"
    /\ indice \in 0..(Len(propiedades) - 1)
    /\ indice # rangeDlg.fix
    /\ rangeDlg' = actualizarUI(rangeDlg, indice)
    /\ UNCHANGED tabVars

\* the user picks an entry of the Vary combo box (actualizarVariable only
\* replaces the three range inputs)
varyChanged(indice) ==
    /\ rangeDlg.open = "Isoproperty"
    /\ indice \in 0..(Len(rangeDlg.vary) - 1)
    /\ indice # rangeDlg.varyIndex
    /\ rangeDlg' = [rangeDlg EXCEPT !.varyIndex = indice]
    /\ UNCHANGED tabVars

\* the states of a range table as addTable is given them: each value another
\* state (the title of the table is the one addTable keeps for every table
\* made of states)
RangeStates(value) == [k \in 1..Len(value) |-> value[k]]

\* plugin.showIsoproperty after dlg.exec_() returned true
showIsopropertyAccept(value1, start, end, incr) ==
    LET i == rangeDlg.fix
        j == IF rangeDlg.varyIndex >= i THEN rangeDlg.varyIndex + 1
                                        ELSE rangeDlg.varyIndex
        X == IsopropertyKeys[i + 1]
        Y == IsopropertyKeys[j + 1]
        value2 == RangeValues(start, end, incr)
        fluidos == [k \in 1..Len(value2) |->
                      [vary |-> <<Y, value2[k]>>, fixed |-> <<X, value1>>]]
    IN  /\ rangeDlg.open = "Isoproperty"
        /\ incr > 0
        /\ rangeDlg' = [ClosedRange EXCEPT
                          !.done = "Isoproperty", !.fix = i,
                          !.start = start, !.end = end, !.incr = incr,
                          !.value = value2, !.fluidos = fluidos,
                          !.X = X, !.Y = Y,
                          !.shown = rangeDlg.vary[rangeDlg.varyIndex + 1]]
        /\ addTable(RangeStates(value2), 0)

\* plugin.showSaturation up to dlg.exec_(): Ui_Saturation.__init__ checks
\* the liquid-gas line and the temperature
showSaturation ==
    /\ NoModal /\ CalcPlotEnabled(config)
    /\ rangeDlg.open = ""
    /\ rangeDlg' = [ClosedRange EXCEPT !.open = "Saturation"]
    /\ UNCHANGED tabVars

\* the user checks a line of the dialog; the melting and the sublimation
\* line are enabled under the internal method for a fluid that has them.
\* VL.toggled calls updateVary, which checks the temperature when VL was
\* left (unchecking it when VL was entered has no effect in its group)
checkLine(line) ==
    /\ rangeDlg.open = "Saturation"
    /\ line \in {"VL", "SL", "SV"}
    /\ line # "VL" => getMethod(pref) = "MEOS"
    /\ rangeDlg' = [rangeDlg EXCEPT
                      !.VL = (line = "VL"), !.SL = (line = "SL"), !.SV = (line = "SV"),
                      !.var = IF rangeDlg.VL /\ line # "VL" THEN "T" ELSE @]
    /\ UNCHANGED tabVars

\* the user checks what to vary; the two quality options are enabled with
\* the liquid-gas line only
checkVar(var) ==
    /\ rangeDlg.open = "Saturation"
    /\ var \in {"T", "P", "XconT", "XconP"}
    /\ var \in {"XconT", "XconP"} => rangeDlg.VL
    /\ rangeDlg' = [rangeDlg EXCEPT !.var = var]
    /\ UNCHANGED tabVars

\* the kwargs of fluid._new for the value val of a saturation table; x=0.5
\* is written 5, P(T) and T(P) stand for the melting or sublimation pressure
\* of val and the temperature solved for it
SaturationKwargs(d, val, fix) ==
    IF d.VL
    THEN IF d.var = "T" THEN [vary |-> <<"T", val>>, fixed |-> <<"x", 5>>]
         ELSE IF d.var = "P" THEN [vary |-> <<"P", val>>, fixed |-> <<"x", 5>>]
         ELSE IF d.var = "XconT" THEN [vary |-> <<"x", val>>, fixed |-> <<"T", fix>>]
         ELSE [vary |-> <<"x", val>>, fixed |-> <<"P", fix>>]
    ELSE IF d.var = "T" THEN [vary |-> <<"T", val>>, fixed |-> <<"P(T)", val>>]
         ELSE [vary |-> <<"P", val>>, fixed |-> <<"T(P)", val>>]

\* plugin.showSaturation after dlg.exec_() returned true
showSaturationAccept(fix, start, end, incr) ==
    LET value == RangeValues(start, end, incr)
        fluidos == [k \in 1..Len(value) |-> SaturationKwargs(rangeDlg, value[k], fix)]
    IN  /\ rangeDlg.open = "Saturation"
        /\ incr > 0
        /\ rangeDlg' = [ClosedRange EXCEPT
                          !.done = "Saturation",
                          !.VL = rangeDlg.VL, !.SL = rangeDlg.SL, !.SV = rangeDlg.SV,
                          !.var = rangeDlg.var,
                          !.start = start, !.end = end, !.incr = incr,
                          !.value = value, !.fluidos = fluidos]
        /\ addTable(RangeStates(value), 0)

\* either dialog is cancelled
rangeReject ==
    /\ rangeDlg.open # ""
    /\ rangeDlg' = ClosedRange
    /\ UNCHANGED tabVars

DlgIdle == plot3d = ClosedPlot3D /\ propDlg = ClosedProperties /\ rangeDlg = ClosedRange

\* ------------------------------------------------------------ calculatePlot
\* ThermoAdvanced.propertiesKey() in its order
propertiesKeyList == <<"T", "P", "rho", "s">>

\* fluido.__getattribute__(key) of the state point fluido
Attribute(fluido, key) == <<key, fluido.id>>

RECURSIVE dat_propiedad(_, _, _, _)
\* the list calculatePlot builds for a line from the states fluidos, from
\* state i on, with the values of key: skipNone tells the saturation loop,
\* which leaves the states without status out, from the isoline loops, which
\* append None for them
dat_propiedad(fluidos, key, skipNone, i) ==
    IF i > Len(fluidos) THEN <<>>
    ELSE (IF fluidos[i].status THEN <<Attribute(fluidos[i], key)>>
          ELSE IF skipNone THEN <<>> ELSE <<(<<"None", 0>>)>>)
         \o dat_propiedad(fluidos, key, skipNone, i + 1)

\* the loop variable key after "for key in ThermoAdvanced.propertiesKey()"
\* of the saturation lines
LastKey == propertiesKeyList[Len(propertiesKeyList)]

\* the key the isoquality loop "for x in propertiesKey()" should read
isoqualityKey_x(x) == x

\* the key the isoquality loop "for x in propertiesKey()" reads: key, not x
isoqualityKey(x) == LastKey

NoPlotData ==
    [some |-> FALSE, raised |-> "",
     saturation_0 |-> [k \in propertiesKey |-> <<>>],
     saturation_1 |-> [k \in propertiesKey |-> <<>>],
     x |-> [k \in propertiesKey |-> <<>>],
     T |-> [k \in propertiesKey |-> <<>>],
     P |-> [k \in propertiesKey |-> <<>>],
     fluidos |-> [l \in {"saturation_0", "saturation_1", "x", "T", "P"} |-> <<>>]]

\* plugin.calculatePlot for a fluid without melting and sublimation line
\* and one value of each isoline: sat0 and sat1 are the states
\* fluid._new(T=Ti, x=fase) gives, isox, isoT and isoP the lists calcIsoline
\* returns. Under REFPROP the limits of the equation stay unbound
calculatePlot(sat0, sat1, isox, isoT, isoP) ==
    /\ NoModal
    /\ plotData' =
         IF getMethod(pref) = "REFPROP"
         THEN [NoPlotData EXCEPT !.raised = "UnboundLocalError"]
         ELSE [some |-> TRUE, raised |-> "",
               saturation_0 |-> [k \in propertiesKey |-> dat_propiedad(sat0, k, TRUE, 1)],
               saturation_1 |-> [k \in propertiesKey |-> dat_propiedad(sat1, k, TRUE, 1)],
               x |-> [k \in propertiesKey |->
                        dat_propiedad(isox, isoqualityKey(k), FALSE, 1)],
               T |-> [k \in propertiesKey |-> dat_propiedad(isoT, k, FALSE, 1)],
               P |-> [k \in propertiesKey |-> dat_propiedad(isoP, k, FALSE, 1)],
               fluidos |-> [l \in {"saturation_0", "saturation_1", "x", "T", "P"} |->
                              IF l = "saturation_0" THEN sat0
                              ELSE IF l = "saturation_1" THEN sat1
                              ELSE IF l = "x" THEN isox
                              ELSE IF l = "T" THEN isoT ELSE isoP]]
    /\ UNCHANGED iso

ToolIdle == CalcIdle /\ RowIdle /\ DlgIdle /\ plotData = NoPlotData

\* ------------------------------------------------- EditPlot.add and the file
\* data[var][value] = line on the lines of a data file: the line of an
\* isoline added before is replaced
SetLine(lines, line) ==
    IF \E i \in 1..Len(lines) :
          "var" \in DOMAIN lines[i] /\ lines[i].var = line.var
                                     /\ lines[i].value = line.value
    THEN [i \in 1..Len(lines) |->
            IF "var" \in DOMAIN lines[i] /\ lines[i].var = line.var
                                         /\ lines[i].value = line.value
            THEN line ELSE lines[i]]
    ELSE Append(lines, line)

\* the fluid EditPlot.add would calculate for if it took the plot's own config
addFluid_plot == [fluid |-> grafico.config.fluid % NFluid, eq |-> grafico.config.eq]

\* the fluid and the equation EditPlot.add calculates the line for:
\* mEoS.__all__[currentConfig.getint("MEoS", "fluid")] and the eq of the
\* project's configuration
addFluid == [fluid |-> getClassFluid(config), eq |-> getval(config, "eq")]

\* EditPlot.add with the AddLine dialog accepted: the isoline is calculated,
\* plotted and written into the data file of the plot
addLine(var, value) ==
    /\ NoModal
    /\ EditPlotAdd(var, value)
    /\ LET r == _getData(softFiles, hardFiles, grafico.filename)
           line == [fluid |-> addFluid.fluid, eq |-> addFluid.eq,
                    var |-> var, value |-> value]
       IN  /\ r.data.some
           /\ softFiles' = _saveData(r.soft, grafico.filename,
                                     [r.data EXCEPT !.lines = SetLine(@, line)])
    /\ UNCHANGED <<pref, hardFiles, stack>>
    /\ UNCHANGED cfgVars

\* plugin.plot run to its end without another handler in between: the plot
\* window of the stored data, which is calculated and stored when missing
plotStored(x, y, z) ==
    /\ plotWindow(x, y, z)
    /\ LET filename == FileName(getMethod(pref), getClassFluid(config))
           r == _getData(softFiles, hardFiles, filename)
           data == [some |-> TRUE,
                    lines |-> [i \in 1..NChunk |->
                                 [fluid |-> getClassFluid(config),
                                  eq |-> getval(config, "eq")]],
                    config |-> [method |-> getMethod(pref),
                                fluid |-> getval(config, "fluid"),
                                eq |-> getval(config, "eq"),
                                visco |-> getval(config, "visco"),
                                thermal |-> getval(config, "thermal")]]
       IN  softFiles' = IF r.data.some THEN r.soft
                        ELSE _saveData(softFiles, filename, data)
    /\ UNCHANGED <<pref, hardFiles, stack>>
    /\ UNCHANGED cfgVars

\* the plot window is closed
closePlot ==
    /\ NoModal
    /\ grafico.some
    /\ grafico' = NoGrafico
    /\ UNCHANGED <<plotJSON, plotWritten, plotLoaded>>
    /\ UNCHANGED <<cfgVars, plotVars>>

\* ------------------------------------------------------------ specifications
vars == <<cfgVars, plotVars, dataVars, tabVars, jsonVars, apVars, toolVars>>

\* a new project: no MEoS option yet, nothing open
CfgInit ==
    /\ config \in {[sec |-> b, opt |-> EmptyOpt] : b \in BOOLEAN}
    /\ dirty = FALSE
    /\ err = ""
    /\ menu = [shown |-> FALSE, calculate |-> FALSE, plot |-> FALSE]
    /\ dialog = [open |-> FALSE, calculate |-> FALSE, plot |-> FALSE]
    /\ choose = ChooseClosed
    /\ refDlg = RefClosed

\* the files shipped with the program: MEOS data of the first n fluids
ShippedData(f) ==
    [some |-> TRUE,
     lines |-> [i \in 1..NChunk |-> [fluid |-> f, eq |-> 0]],
     config |-> [method |-> "MEOS", fluid |-> f, eq |-> 0, visco |-> 0, thermal |-> 0]]

Shipped(n) ==
    [fn \in {FileName("MEOS", f) : f \in 0..(n - 1)} |->
        Gzip(Pickle(ShippedData(fn[3])))]

\* the data files a PlotMEoS instance is tried on
DataFiles == {FileName("MEOS", f) : f \in 0..1}

DataIdle ==
    /\ saved = [f \in DataFiles |-> NoData]
    /\ got = [filename |-> <<>>, data |-> NoData]

TabIdle ==
    /\ unidades_all = UnitClasses
    /\ tabla = NoTabla
    /\ tablaJSON = NoJSON
    /\ tablaWritten = NoTabla
    /\ tablaLoaded = NoTabla

JsonIdle ==
    /\ grafico = NoGrafico
    /\ plotJSON = NoPlotJSON
    /\ plotWritten = NoGrafico
    /\ plotLoaded = NoGrafico
    /\ addPoint = ClosedAddPoint
    /\ ToolIdle

PlotIdle ==
    /\ pref = [coolprop |-> FALSE, refprop |-> FALSE]
    /\ softFiles = [fn \in {} |-> 0]
    /\ hardFiles = Shipped(0)
    /\ stack = <<>>

\* values the user enters in the Custom fields T, P, h, s
CustomValues == {<<35000, 200000, 0, 1>>, <<35000, 200000, 200, 1>>}

Init == CfgInit /\ PlotIdle /\ DataIdle /\ TabIdle /\ JsonIdle

\* the configuration handlers of the plugin, from the Menu and from the Dialog
Next ==
    /\ UNCHANGED <<plotVars, dataVars, tabVars, jsonVars, apVars, toolVars>>
    /\ \/ \E cls \in Hosts : showChooseFluid(cls)
       \/ \E r \in 0..(NFluid - 1) : setCurrentRow(r)
       \/ \E eq \in 0..(MaxEq - 1), radio \in Radios : showChooseFluidAccept(eq, radio)
       \/ showChooseFluidReject
       \/ \E cls \in Hosts : showReference(cls)
       \/ \E o \in RefNames : setChecked(o)
       \/ \E v \in CustomValues : setValue(v[1], v[2], v[3], v[4])
       \/ showReferenceAccept
       \/ showReferenceReject
       \/ \E cls \in Hosts, props \in [1..N_PROP -> {0, 1}], fase \in BOOLEAN :
             showPropertiesAccept(cls, props, fase, RangeNProp)
       \/ \E cls \in Hosts : showPropertiesReject(cls)
       \/ aboutToShow_menu
       \/ DialogInit
       \/ DialogClose

Spec == Init /\ [][Next]_vars

\* the Menu and the Dialog with the two dialogs their enable test depends on
NextMenu ==
    /\ UNCHANGED <<plotVars, dataVars, tabVars, jsonVars, apVars, toolVars>>
    /\ \/ \E cls \in Hosts : showChooseFluid(cls)
       \/ setCurrentRow(0)
       \/ showChooseFluidAccept(0, "MEoS")
       \/ showChooseFluidReject
       \/ \E cls \in Hosts : showReference(cls)
       \/ \E o \in RefNames : setChecked(o)
       \/ \E v \in CustomValues : setValue(v[1], v[2], v[3], v[4])
       \/ showReferenceAccept
       \/ showReferenceReject
       \/ \E cls \in Hosts, props \in [1..N_PROP -> {0, 1}], fase \in BOOLEAN :
             showPropertiesAccept(cls, props, fase, RangeNProp)
       \/ \E cls \in Hosts : showPropertiesReject(cls)
       \/ aboutToShow_menu
       \/ DialogInit
       \/ DialogClose

SpecMenu == Init /\ [][NextMenu]_vars

\* the Choose-fluid dialog from the Menu, with its family filter
NextChoose ==
    /\ UNCHANGED <<plotVars, dataVars, tabVars, jsonVars, apVars, toolVars>>
    /\ \/ showChooseFluid("Menu")
       \/ \E showAll \in BOOLEAN, grp \in [1..NFam -> BOOLEAN] : filter(showAll, grp)
       \/ \E r \in 0..(NFluid - 1) : setCurrentRow(r)
       \/ showChooseFluidAccept(0, "MEoS")
       \/ showChooseFluidReject

SpecChoose == Init /\ [][NextChoose]_vars

\* a project whose fluid and reference state were chosen from the Menu: what
\* showChooseFluid and showReference (OTO) leave in the configuration
ConfiguredProject ==
    checkProperties(
        cfgset(cfgset(cfgset(cfgset(cfgset(
        cfgset(cfgset(cfgset(cfgset(cfgset(cfgset(
            [sec |-> TRUE, opt |-> EmptyOpt],
            "fluid", Str(0)), "eq", Str(0)), "PR", Str(FALSE)),
            "Generalized", Str(FALSE)), "visco", Str(0)), "thermal", Str(0)),
            "reference", "OTO"), "Tref", Str(29815)), "Pref", Str(101325)),
            "ho", Str(0)), "so", Str(0)))

InitPlot ==
    /\ config = ConfiguredProject
    /\ dirty = TRUE
    /\ err = ""
    /\ menu = [shown |-> TRUE, calculate |-> TRUE, plot |-> TRUE]
    /\ dialog = [open |-> FALSE, calculate |-> FALSE, plot |-> FALSE]
    /\ choose = ChooseClosed
    /\ refDlg = RefClosed
    /\ pref = [coolprop |-> FALSE, refprop |-> FALSE]
    /\ softFiles = [fn \in {} |-> 0]
    /\ hardFiles \in {Shipped(n) : n \in 0..MaxShipped}
    /\ stack = <<>>
    /\ DataIdle /\ TabIdle /\ JsonIdle

\* the rows of the Choose-fluid list the user picks between plot requests
PlotRows == {0, 1}

\* plot requests from the Menu, the fluid and the calculation method being
\* changed between and during them (at the processEvents calls)
NextPlot ==
    /\ UNCHANGED <<dataVars, tabVars, jsonVars, apVars, toolVars>>
    /\ \/ \E a \in PlotAxes : plot(a[1], a[2], a[3])
       \/ plotGetData
       \/ plotCalculate
       \/ plotSave
       \/ plotShow
       \/ \E cp \in BOOLEAN : configure(cp, FALSE)
       \/ showChooseFluid("Menu") /\ UNCHANGED plotVars
       \/ (\E r \in PlotRows : setCurrentRow(r)) /\ UNCHANGED plotVars
       \/ showChooseFluidAccept(0, "MEoS") /\ UNCHANGED plotVars
       \/ showChooseFluidReject /\ UNCHANGED plotVars

SpecPlot == InitPlot /\ [][NextPlot]_vars

\* the data a caller passes to _saveData: one value per equation index
DataValue(e) ==
    [some |-> TRUE,
     lines |-> <<[fluid |-> 0, eq |-> e]>>,
     config |-> [method |-> "MEOS", fluid |-> 0, eq |-> e, visco |-> 0, thermal |-> 0]]

\* a caller (EditPlot.add, EditPlot.remove, TablaMEoS.add, TablaMEoS.delete,
\* plugin.plot) saves d for the PlotMEoS of file f
SaveData(f, d) ==
    /\ softFiles' = _saveData(softFiles, f, d)
    /\ saved' = [saved EXCEPT ![f] = d]
    /\ UNCHANGED <<pref, hardFiles, stack, got>>

\* a caller reads the data of the PlotMEoS of file f
GetData(f) ==
    /\ LET r == _getData(softFiles, hardFiles, f)
       IN /\ softFiles' = r.soft
          /\ got' = [filename |-> f, data |-> r.data]
    /\ UNCHANGED <<pref, hardFiles, stack, saved>>

InitData ==
    /\ CfgInit /\ DataIdle /\ TabIdle /\ JsonIdle
    /\ pref = [coolprop |-> FALSE, refprop |-> FALSE]
    /\ softFiles = [fn \in {} |-> 0]
    /\ hardFiles \in {Shipped(n) : n \in 0..MaxShipped}
    /\ stack = <<>>

NextData ==
    /\ UNCHANGED <<cfgVars, tabVars, jsonVars, apVars, toolVars>>
    /\ \/ \E f \in DataFiles, e \in 0..(MaxEq - 1) : SaveData(f, DataValue(e))
       \/ \E f \in DataFiles : GetData(f)

SpecData == InitData /\ [][NextData]_vars

\* the projects a table is created in: fluid and reference state chosen, the
\* properties and the phase option as a Properties dialog leaves them
TablaProjects ==
    {cfgset(cfgset(ConfiguredProject, "properties", Str(props)),
            "phase", IF fase THEN "True" ELSE "False") :
        props \in [1..N_PROP -> {0, 1}], fase \in BOOLEAN}

InitTabla ==
    /\ config \in TablaProjects
    /\ dirty = TRUE
    /\ err = ""
    /\ menu = [shown |-> TRUE, calculate |-> TRUE, plot |-> TRUE]
    /\ dialog = [open |-> FALSE, calculate |-> FALSE, plot |-> FALSE]
    /\ choose = ChooseClosed
    /\ refDlg = RefClosed
    /\ pref \in {[coolprop |-> cp, refprop |-> rp] : cp, rp \in BOOLEAN}
    /\ pref.refprop => pref.coolprop
    /\ softFiles = [fn \in {} |-> 0]
    /\ hardFiles = Shipped(0)
    /\ stack = <<>>
    /\ DataIdle /\ TabIdle /\ JsonIdle

\* the state points of a table with n rows: each point another state
Points(n) == [i \in 1..n |-> i]

\* tables created, filled, reformatted, saved with the project and loaded
NextTabla ==
    /\ UNCHANGED <<cfgVars, plotVars, dataVars, jsonVars, apVars, toolVars>>
    /\ \/ \E n \in 1..MaxRows : addTable(Points(n), 0)
       \/ addTableSpecified(0)
       \/ calculatePoint(Len(tabla.data) + 1)
       \/ \E col \in {0, tabla.column - 1} : hHeaderClicked(col, 1, OtherFormat)
       \/ writeToJSON
       \/ readFromJSON

SpecTabla == InitTabla /\ [][NextTabla]_vars

\* the isolines the user adds to a plot
AddedLines == {<<"T", 2>>, <<"P", 1>>}

\* plots created, edited, saved with the project and loaded
NextPlotJSON ==
    /\ UNCHANGED <<cfgVars, plotVars, dataVars, tabVars, apVars, toolVars>>
    /\ \/ \E a \in PlotAxes : plotWindow(a[1], a[2], a[3])
       \/ \E l \in AddedLines : EditPlotAdd(l[1], l[2])
       \/ \E i \in 0..(MaxLines - 1) : EditPlotRemove(i)
       \/ plotWriteToJSON
       \/ plotReadFromJSON

SpecPlotJSON == InitPlot /\ [][NextPlotJSON]_vars

\* the keys the user enters values for, and the values
EditKeys == {"T", "P"}

EditValues == {1, 2}

\* the AddPoint dialog opened, filled in, reset and closed
NextAddPoint ==
    /\ UNCHANGED <<cfgVars, plotVars, dataVars, tabVars, jsonVars, toolVars>>
    /\ \/ \E melting \in BOOLEAN : AddPointInit(melting)
       \/ \E key \in EditKeys, value \in EditValues : update(key, value)
       \/ \E sm \in StatusMsg : updateEnd(sm)
       \/ reset
       \/ AddPointClose

SpecAddPoint == InitPlot /\ [][NextAddPoint]_vars

\* the number of values an isoline varies
MaxVary == 2

\* the isolines calculated: isobar, isotherm, isentropic, and one with
\* neither T nor P among its arguments
IsolineKinds == {<<"T", "P">>, <<"P", "T">>, <<"T", "s">>, <<"h", "s">>}

HValues == {1, 2}

\* the varied values of an isoline, ascending as the callers build them
Ascending(values, n) ==
    {q \in [1..n -> values] : \A i \in 1..(n - 1) : q[i] < q[i + 1]}

Vvar(var) ==
    UNION {Ascending(IF var = "P" THEN PValues
                     ELSE IF var = "T" THEN TValues ELSE HValues, n) :
           n \in 1..MaxVary}

Vfix(fix) ==
    IF fix = "T" THEN {_melting.Tmin}
    ELSE IF fix = "P" THEN {MEoSPmin.P} ELSE {1}

\* points and isolines calculated under each method
NextCalc ==
    /\ UNCHANGED <<cfgVars, dataVars, tabVars, jsonVars, apVars, rowVars, dlgVars,
                   plotData>>
    /\ \/ \E cp, rp \in BOOLEAN : configure(cp, rp) /\ UNCHANGED toolVars
       \/ /\ UNCHANGED plotVars
          /\ \/ \E k \in IsolineKinds :
                  \E vvar \in Vvar(k[1]), vfix \in Vfix(k[2]) :
                      calcIsoline(k[1], k[2], vvar, vfix)
             \/ \E fl \in UNION {_new(IsolineKwargs(iso.var, iso.fix, v,
                                                    iso.vfix)) :
                                  v \in TValues \cup PValues \cup HValues} :
                  calcIsolineStep(fl)
             \/ calcIsolineReturn

SpecCalc == InitPlot /\ [][NextCalc]_vars

\* the state points a read-only table is made of
Fluidos == {<<1, 2>>, <<1, 2, 3>>}

\* the states the AddPoint dialog calculates
AddedPoints == {7}

\* tables made from state points or from a plot line, rows deleted, column
\* formats changed
NextRows ==
    /\ UNCHANGED <<cfgVars, plotVars, dataVars, apVars, calcVars, dlgVars, pending,
                   built>>
    /\ \/ \E a \in PlotAxes :
            plotWindow(a[1], a[2], a[3]) /\ UNCHANGED <<tabVars, rowVars>>
       \/ \E i \in 1..MaxLines : table(i)
       \/ \E fluidos \in Fluidos :
            /\ addTable(fluidos, 0)
            /\ widget' = [rows |-> setStr(<<>>, tabla'), raised |-> ""]
            /\ UNCHANGED <<lineFile, jsonVars>>
       \/ /\ addTableSpecified(0)
          /\ widget' = [rows |-> <<[k \in 1..tabla'.column |-> <<>>]>>,
                        raised |-> ""]
          /\ UNCHANGED <<lineFile, jsonVars>>
       \/ \E rows \in SUBSET (0..MaxRows) : delete(rows)
       \/ \E row \in 0..MaxRows, below \in BOOLEAN, v \in AddedPoints :
            add(row, below, v)
       \/ \E col \in {0, tabla.column - 1} :
            /\ widget.raised = ""
            /\ hHeaderClicked(col, 0, OtherFormat)
            /\ widget' = [widget EXCEPT !.rows = setStr(@, tabla')]
            /\ UNCHANGED <<lineFile, jsonVars>>

SpecRows == InitPlot /\ [][NextRows]_vars

\* the Plot3D dialog opened, its combo boxes changed, accepted or rejected,
\* and the plot it starts run to its end
NextPlot3D ==
    /\ UNCHANGED <<dataVars, tabVars, jsonVars, apVars, calcVars, rowVars, propDlg,
                   rangeDlg>>
    /\ \/ plot3D
       \/ \E i \in 0..(PropCount - 1) : selectX(i)
       \/ \E j \in 0..(PropCount - 2) : selectY(j)
       \/ \E k \in 0..(PropCount - 3) : selectZ(k)
       \/ plot3DAccept
       \/ plot3DReject
       \/ (plotGetData \/ plotCalculate \/ plotSave \/ plotShow) /\ UNCHANGED plot3d

SpecPlot3D == InitPlot /\ [][NextPlot3D]_vars

\* the Select Properties dialog opened, its rows marked and moved, accepted
\* or rejected
NextProperties ==
    /\ UNCHANGED <<plotVars, dataVars, tabVars, jsonVars, apVars, calcVars,
                   rowVars, plot3d, rangeDlg>>
    /\ \/ Ui_Properties
       \/ \E fila \in 0..(N_PROP - 1) : currentCellChanged(fila)
       \/ \E fila \in 0..(N_PROP - 1) : toggleCheck(fila)
       \/ Down
       \/ Up
       \/ \E boton \in {"Reset", "No Mark", "Mark all"} : buttonClicked(boton)
       \/ \E fase \in BOOLEAN : propertiesAccept(fase)
       \/ propertiesReject

SpecProperties == InitPlot /\ [][NextProperties]_vars

\* the texts the user edits a cell to: none, or a number
CellTexts == {<<>>, <<1>>, <<2>>}

\* a blank table of specified state points, its cells edited
NextPoint ==
    /\ UNCHANGED <<cfgVars, plotVars, dataVars, jsonVars, apVars, calcVars, dlgVars,
                   built>>
    /\ \/ /\ addTableSpecified(0)
          /\ widget' = [rows |-> <<[k \in 1..tabla'.column |-> <<>>]>>,
                        raised |-> ""]
          /\ pending' = NoPending
          /\ UNCHANGED lineFile
       \/ \E row \in 0..MaxRows, column \in 0..(3 * N_PROP - 1),
             txt \in CellTexts, status \in BOOLEAN :
            cellChanged(row, column, txt, status)

SpecPoint == InitTabla /\ [][NextPoint]_vars

\* the projects a table is created in, with every selection, order and
\* phase option a Properties dialog can leave
PropertyProjects ==
    {cfgset(cfgset(cfgset(ConfiguredProject, "properties", Str(props)),
                   "propertiesOrder", Str(order)),
            "phase", IF fase THEN "True" ELSE "False") :
        props \in [1..N_PROP -> {0, 1}], order \in Perms, fase \in BOOLEAN}

InitCreate ==
    /\ config \in PropertyProjects
    /\ dirty = TRUE
    /\ err = ""
    /\ menu = [shown |-> TRUE, calculate |-> TRUE, plot |-> TRUE]
    /\ dialog = [open |-> FALSE, calculate |-> FALSE, plot |-> FALSE]
    /\ choose = ChooseClosed
    /\ refDlg = RefClosed
    /\ pref \in {[coolprop |-> cp, refprop |-> rp] : cp, rp \in BOOLEAN}
    /\ pref.refprop => pref.coolprop
    /\ softFiles = [fn \in {} |-> 0]
    /\ hardFiles = Shipped(0)
    /\ stack = <<>>
    /\ DataIdle /\ TabIdle /\ JsonIdle

\* tables created from state points and blank, in each project
NextCreate ==
    /\ UNCHANGED <<cfgVars, plotVars, dataVars, jsonVars, apVars, calcVars, dlgVars,
                   widget, lineFile, pending>>
    /\ \/ \E fluidos \in Fluidos :
            /\ addTable(fluidos, 0)
            /\ built' = createTablaLists(config, fluidos)
       \/ /\ addTableSpecified(0)
          /\ built' = createTablaLists(config, <<>>)
       \/ /\ tabla.some
          /\ tabla' = NoTabla
          /\ built' = NoBuilt
          /\ UNCHANGED <<unidades_all, tablaJSON, tablaWritten, tablaLoaded>>

SpecCreate == InitCreate /\ [][NextCreate]_vars

\* the states of a line: fluid._new gives states with and without status,
\* calcIsoline returns calculated states only
States(statuses) ==
    UNION {[1..n -> {[id |-> i, status |-> st] : i \in 1..MaxVary, st \in statuses}] :
           n \in 0..MaxVary}

\* the data of a plot calculated under each method; the two saturation lines
\* are drawn from one list of states and the three isolines from another
NextCalcPlot ==
    /\ UNCHANGED <<cfgVars, dataVars, tabVars, jsonVars, apVars, rowVars, dlgVars>>
    /\ \/ \E cp, rp \in BOOLEAN : configure(cp, rp) /\ UNCHANGED toolVars
       \/ /\ UNCHANGED plotVars
          /\ \E sat0 \in States(BOOLEAN), isox \in States({TRUE}) :
                calculatePlot(sat0, sat0, isox, isox, isox)

SpecCalcPlot == InitPlot /\ [][NextCalcPlot]_vars

\* the values entered in a range dialog
RangeInputs == 0..MaxEnd

Increments == 1..MaxIncr

\* saturation and isoproperty tables asked for from the Menu
NextRange ==
    /\ UNCHANGED <<cfgVars, plotVars, dataVars, jsonVars, apVars, calcVars, rowVars,
                   plot3d, propDlg>>
    /\ \/ showIsoproperty
       \/ \E indice \in 0..(Len(propiedades) - 1) : fixChanged(indice)
       \/ \E indice \in 0..(Len(propiedades) - 1) : varyChanged(indice)
       \/ \E start, end \in RangeInputs, incr \in Increments :
             showIsopropertyAccept(MaxEnd, start, end, incr)
       \/ showSaturation
       \/ \E line \in {"VL", "SL", "SV"} : checkLine(line)
       \/ \E var \in {"T", "P", "XconT", "XconP"} : checkVar(var)
       \/ \E start, end \in RangeInputs, incr \in Increments :
             showSaturationAccept(MaxEnd, start, end, incr)
       \/ rangeReject

SpecRange == InitPlot /\ [][NextRange]_vars

\* the isoline the user adds to the plots of several fluids
EditedLines == {<<"T", 2>>}

\* plots made and closed, isolines added to them, the fluid of the project
\* changed in between
NextEditPlot ==
    /\ UNCHANGED <<dataVars, tabVars, apVars, toolVars>>
    /\ \/ \E a \in PlotAxes : plotStored(a[1], a[2], a[3])
       \/ \E l \in EditedLines : addLine(l[1], l[2])
       \/ closePlot
       \/ showChooseFluid("Menu") /\ UNCHANGED <<plotVars, jsonVars>>
       \/ (\E r \in PlotRows : setCurrentRow(r)) /\ UNCHANGED <<plotVars, jsonVars>>
       \/ showChooseFluidAccept(0, "MEoS") /\ UNCHANGED <<plotVars, jsonVars>>
       \/ showChooseFluidReject /\ UNCHANGED <<plotVars, jsonVars>>

SpecEditPlot == InitPlot /\ [][NextEditPlot]_vars

\* ------------------------------------------------------------------ claims
\* C11: calcPoint never raises and returns None or a state of status 1 or 3
\* whose T lies in [Tmin, Tmax] and whose P lies in [Pmin-1, Pmax+1], Pmax
\* lowered to the melting pressure inside the melting range, under each of the
\* methods MEOS, COOLPROP and REFPROP; calcIsoline returns only such states,
\* in the order of the varied values
InRange(method, fl) ==
    LET lim == Limits(method)
    IN  /\ fl.status \in {1, 3}
        /\ lim.Tmin <= fl.T /\ fl.T <= lim.Tmax
        /\ lim.Pmin - 1 <= fl.P
        /\ fl.P <= PmaxMelting(method, lim, fl) + 1

IsolineValue(fl) == IF iso.var = "P" THEN fl.P ELSE fl.T

C11_CalcPointNeverRaisesInRange ==
    /\ iso.last.kind \in {"None", "state"}
    /\ iso.last.kind = "state" => InRange(iso.method, iso.last.fluido)
    /\ ~iso.raised
    /\ \A k \in 1..Len(iso.fluidos) :
        /\ \E method \in Methods : InRange(method, iso.fluidos[k])
        /\ (k > 1 /\ iso.var \in {"T", "P"}) =>
            IsolineValue(iso.fluidos[k - 1]) < IsolineValue(iso.fluidos[k])

C2_GetDataReturnsLastSaved ==
    [][\A f \in DataFiles : GetData(f) =>
          /\ got'.filename = f
          /\ saved[f].some => got'.data = saved[f] /\ softFiles' = softFiles
          /\ (~saved[f].some /\ f \in DOMAIN softFiles) =>
                got'.data = ShippedData(f[3]) /\ softFiles' = softFiles
          /\ (~saved[f].some /\ f \notin DOMAIN softFiles /\ f \in DOMAIN hardFiles) =>
                /\ got'.data = ShippedData(f[3])
                /\ f \in DOMAIN softFiles'
                /\ softFiles'[f] = <<"pickle", ShippedData(f[3])>>
          /\ (~saved[f].some /\ f \notin DOMAIN softFiles /\ f \notin DOMAIN hardFiles) =>
                ~got'.data.some /\ softFiles' = softFiles]_vars

\* C2 witness: with a shipped file present, _getData returned the data saved
\* last, which is not the shipped data.
C2_Witness ==
    /\ got.filename \in DOMAIN hardFiles
    /\ got.data.some
    /\ got.data = saved[got.filename]
    /\ got.data # ShippedData(got.filename[3])

\* the values the reference-state options stand for: T, P, ho, so
StatedReference(o, d, c) ==
    CASE o = "OTO" -> <<29815, 101325, 0, 0>>
      [] o = "NBP" -> <<Tb(c.opt["fluid"][1] % NFluid), 101325, 0, 0>>
      [] o = "IIR" -> <<27315, 101325, 200, 1>>
      [] o = "ASHRAE" -> <<23315, 101325, 0, 0>>
      [] OTHER -> <<d.T, d.P, d.h, d.s>>

\* the fields of two tables the project file is to keep
SameTabla(a, b) ==
    /\ a.title = b.title /\ a.column = b.column /\ a.htitle = b.htitle
    /\ a.units = b.units /\ a.orderUnit = b.orderUnit /\ a.format = b.format
    /\ a.readOnly = b.readOnly /\ a.data = b.data
    /\ ~a.readOnly => /\ a.keys = b.keys
                      /\ a.columnReadOnly = b.columnReadOnly
                      /\ a.Point = b.Point

\* C3: the table TablaMEoS.readFromJSON returns for what writeToJSON wrote
\* has the title, column count, header titles, units, unit order, formats,
\* readOnly flag and data rows of the table written, and for an editable
\* table its keys, columnReadOnly list and fluid/method; writing the loaded
\* table gives the dict again, and reading that the same table.
C3_TablaRoundTrip ==
    tablaLoaded.some =>
        /\ SameTabla(tablaLoaded, tablaWritten)
        /\ TablaWriteToJSON(tablaLoaded, Append(unidades_all, "Dimensionless")) = tablaJSON
        /\ SameTabla(TablaReadFromJSON(
                         TablaWriteToJSON(tablaLoaded, Append(unidades_all, "Dimensionless")),
                         unidades_all \o <<"Dimensionless", "Dimensionless">>),
                     tablaWritten)

\* C3 witness: an editable table with two different rows, a dimensionless
\* column and a column whose unit and format were changed was written and
\* loaded, and the loaded table was written and loaded again.
C3_Witness ==
    /\ tablaLoaded.some /\ ~tablaLoaded.readOnly
    /\ Len(tablaLoaded.data) = 2 /\ tablaLoaded.data[1] # tablaLoaded.data[2]
    /\ \E k \in 1..tablaLoaded.column : tablaLoaded.units[k] = "Dimensionless"
    /\ \E k \in 1..tablaLoaded.column : tablaLoaded.orderUnit[k] = 1
                                          /\ tablaLoaded.format[k] = OtherFormat
    /\ Len(unidades_all) >= Len(UnitClasses) + 4

\* the annotation of a line: text, position percentage, rotation, visibility
Annotation(line) ==
    IF line.text.some
    THEN <<line.text.txt, line.text.pos, line.text.rot, line.text.visible>>
    ELSE <<<<>>, 50, 0, FALSE>>

\* C4: the plot PlotMEoS.readFromJSON returns for what writeToJSON wrote has
\* the axes keys x, y, z and the fluid/eq/visco/thermal config of the plot
\* written, and its lines apart from the two crosshair lines: as many, in
\* the same order, each with the same label, point data, style and
\* annotation, also when two lines carry the same label.
C4_PlotRoundTrip ==
    plotLoaded.some =>
        /\ plotLoaded.x = plotWritten.x /\ plotLoaded.y = plotWritten.y
        /\ plotLoaded.z = plotWritten.z
        /\ plotLoaded.config.fluid = plotWritten.config.fluid
        /\ plotLoaded.config.eq = plotWritten.config.eq
        /\ plotLoaded.config.visco = plotWritten.config.visco
        /\ plotLoaded.config.thermal = plotWritten.config.thermal
        /\ Len(plotLoaded.lines) = Len(plotWritten.lines)
        /\ \A i \in 1..Len(plotWritten.lines) :
              /\ plotLoaded.lines[i].label = plotWritten.lines[i].label
              /\ plotLoaded.lines[i].x = plotWritten.lines[i].x
              /\ plotLoaded.lines[i].y = plotWritten.lines[i].y
              /\ plotLoaded.lines[i].z = plotWritten.lines[i].z
              /\ plotLoaded.lines[i].format = plotWritten.lines[i].format
              /\ plotLoaded.lines[i].visible = plotWritten.lines[i].visible
              /\ Annotation(plotLoaded.lines[i]) = Annotation(plotWritten.lines[i])

\* C10: when AddPoint.update ends the status widget shows the status and
\* msg of the fluid; the input fields hold the values of the fluid when that
\* status is 1 or 3 and are left as they were for any other status.
C10_StatusShownFieldsKept ==
    [][(\E sm \in StatusMsg : updateEnd(sm)) =>
          /\ addPoint'.status = <<addPoint'.fluid.status, addPoint'.fluid.msg>>
          /\ addPoint'.fluid.status \in {1, 3} =>
                \A k \in KeySet : addPoint'.Inputs[k] = Property(addPoint'.fluid, k)
          /\ addPoint'.fluid.status \notin {1, 3} =>
                addPoint'.Inputs = addPoint.Inputs]_vars

\* C10 witness: an update ended with the error status 5 shown and the two
\* values the user entered still in their fields, the other fields empty.
C10_Witness ==
    /\ addPoint.open /\ addPoint.updates = <<>>
    /\ addPoint.status = <<5, "error">> /\ addPoint.fluid.status = 5
    /\ addPoint.Inputs["T"] = 1 /\ addPoint.Inputs["P"] = 2
    /\ addPoint.Inputs["h"] = 0

\* C5: each time the menu is populated and each time the Dialog is
\* constructed, Calculate and Plot are enabled if and only if the project
\* configuration has both the MEoS 'fluid' and the MEoS 'reference' option,
\* after any sequence of accepted or cancelled configuration dialogs.
C5_EnabledIffFluidAndReference ==
    [][LET both == /\ config'.sec
                   /\ "fluid" \in DOMAIN config'.opt
                   /\ "reference" \in DOMAIN config'.opt
       IN /\ aboutToShow_menu =>
                menu'.shown /\ menu'.calculate = both /\ menu'.plot = both
          /\ DialogInit =>
                dialog'.open /\ dialog'.calculate = both /\ dialog'.plot = both]_vars

\* C5 witness: the menu was populated with both entries enabled for a
\* configuration holding fluid and reference, and a Dialog was constructed
\* with both buttons disabled.
C5_Witness ==
    /\ menu.shown /\ menu.calculate /\ menu.plot
    /\ {"fluid", "reference"} \subseteq DOMAIN config.opt
    /\ dialog.open /\ ~dialog.calculate /\ ~dialog.plot

\* C6: for every family filter and every row of the filtered list, the index
\* showChooseFluid stores as 'fluid' is the mEoS.__all__ index of the fluid
\* displayed at the selected row.
C6_IdIsIndexOfDisplayedFluid ==
    [][(\E eq \in 0..(MaxEq - 1), radio \in Radios : showChooseFluidAccept(eq, radio))
          /\ choose.row >= 0
       => /\ "fluid" \in DOMAIN config'.opt
          /\ config'.opt["fluid"][1] = Lista(choose)[choose.row + 1]]_vars

\* C7: accepting the reference-state dialog with any of its five options
\* stores the option name as 'reference' and its values as Tref, Pref, ho, so,
\* fills in default properties if none are defined, marks the project tab
\* dirty, and ends without error.
C7_AcceptStoresReference ==
    [][showReferenceAccept
       => /\ err' = ""
          /\ dirty'
          /\ {"reference", "Tref", "Pref", "ho", "so", "properties"}
                \subseteq DOMAIN config'.opt
          /\ config'.opt["reference"] = refDlg.checked
          /\ <<config'.opt["Tref"][1], config'.opt["Pref"][1],
               config'.opt["ho"][1], config'.opt["so"][1]>>
                = StatedReference(refDlg.checked, refDlg, config)]_vars

\* C8: reopening the reference-state dialog on a configuration that holds a
\* stored reference checks the stored option, shows the stored T, P, h and s
\* for a Custom state, and opens without error.
C8_ReopenShowsStoredReference ==
    [][(\E cls \in Hosts : showReference(cls)) /\ "reference" \in DOMAIN config.opt
       => /\ err' = ""
          /\ refDlg'.open
          /\ refDlg'.checked = config.opt["reference"]
          /\ (config.opt["reference"] = "Custom" =>
                <<refDlg'.T, refDlg'.P, refDlg'.h, refDlg'.s>>
                   = <<config.opt["Tref"][1], config.opt["Pref"][1],
                       config.opt["ho"][1], config.opt["so"][1]>>)]_vars

\* C9: after an accepted Choose-fluid or Reference-state dialog the
\* configuration has 'properties', 'phase' and 'propertiesOrder': set to the
\* default, '0' and the identity order when 'properties' was absent, left as
\* they were when it was present.
C9_PropertiesDefinedAfterAccept ==
    [][(showReferenceAccept
          \/ \E eq \in 0..(MaxEq - 1), radio \in Radios : showChooseFluidAccept(eq, radio))
       => /\ {"properties", "phase", "propertiesOrder"} \subseteq DOMAIN config'.opt
          /\ IF "properties" \in DOMAIN config.opt
             THEN /\ config'.opt["properties"] = config.opt["properties"]
                  /\ config'.opt["phase"] = config.opt["phase"]
                  /\ config'.opt["propertiesOrder"] = config.opt["propertiesOrder"]
             ELSE /\ config'.opt["properties"][1] = [i \in 1..N_PROP |->
                        IF i \in {1, 3, 6, 8, 9} THEN 1 ELSE 0]
                  /\ config'.opt["phase"] = "0"
                  /\ config'.opt["propertiesOrder"][1] = [i \in 1..N_PROP |-> i - 1]]_vars

\* C12: the table widget shows the stored rows: rowCount equals the number
\* of rows of self.data and each row shows the stored values, also after
\* delete(rows) and after a later format change of a column
C12_DeletedRowsLeaveTableAndData ==
    (tabla.some /\ tabla.readOnly /\ widget.raised = "") =>
        /\ Len(widget.rows) = Len(tabla.data)
        /\ widget.rows = setStr(<<>>, tabla)

\* C13: TablaMEoS.add on a table made from a plot line inserts the new point
\* at the chosen row (the row after it with "Add below selected point") in
\* the table, at the same index in the list of every property of the line
\* in the stored data of the plot, and in the x and y data of the line
C13_AddInsertsInTableDataAndLine ==
    [][\A row \in 0..MaxRows, below \in BOOLEAN, v \in AddedPoints :
        (FromLine(tabla) /\ add(row, below, v)) =>
            LET r == IF below THEN row + 1 ELSE row
                px == FluidValue(grafico.x, v)
                py == FluidValue(grafico.y, v)
            IN  /\ widget'.raised = ""
                /\ widget'.rows =
                     Insert(widget.rows, r, RowText(tabla, <<px, py>>))
                /\ \A x \in propertiesKey :
                     lineFile'[x] = Insert(lineFile[x], r, FluidValue(x, v))
                /\ \A i \in 1..Len(grafico.lines) :
                     grafico.lines[i].label = tabla.title[2] =>
                        /\ grafico'.lines[i].x = Insert(grafico.lines[i].x, r, px)
                        /\ grafico'.lines[i].y = Insert(grafico.lines[i].y, r, py)]_vars

\* C14: the keys x, y, z plot3D passes to plot are pairwise distinct and are
\* the properties displayed in the selected entries of ejeX, ejeY and ejeZ
C14_Plot3DPassesDisplayedKeys ==
    (plot3d.called # <<>> /\ plot3d.Y >= 0 /\ plot3d.Z >= 0) =>
        /\ plot3d.called[1] # plot3d.called[2]
        /\ plot3d.called[1] # plot3d.called[3]
        /\ plot3d.called[2] # plot3d.called[3]
        /\ plot3d.called[1] = properties(AllProps[plot3d.X + 1]).key
        /\ plot3d.called[2] = properties(plot3d.itemsY[plot3d.Y + 1]).key
        /\ plot3d.called[3] = properties(plot3d.itemsZ[plot3d.Z + 1]).key

\* C15: toggleCheck toggles the check status of the double-clicked row: an
\* unchecked row becomes checked and a checked row unchecked
C15_ToggleCheckToggles ==
    (propDlg.open /\ propDlg.clicked.fila >= 0) =>
        (propDlg.text[propDlg.clicked.fila + 1] = "") # (propDlg.clicked.txt = "")

\* the row that shows property p
RowOf(d, p) == CHOOSE i \in 1..Len(d.name) : d.name[i] = p

Width(c, p) == IF getboolean(c, "phase") /\ propertiesPhase(p) THEN 3 ELSE 1

RECURSIVE FirstColumn(_, _, _)
\* the first column (from 1) of the j-th selected property
FirstColumn(c, selected, j) ==
    IF j = 1 THEN 1
    ELSE FirstColumn(c, selected, j - 1) + Width(c, selected[j - 1])

\* C18: get_propiedades returns the selected properties in the configured
\* order; the table createTabla builds has as many header titles as units
\* and as values in each row _getData returns; under the phase option a
\* phase property takes three consecutive columns, bulk, liquid and
\* vapour; keys and columnReadOnly of an empty table have that length too
C18_CreateTablaListsAgree ==
    (built.some /\ tabla.some) =>
        LET order == getval(config, "propertiesOrder")
            flags == getval(config, "properties")
            sel == built.selected
            n == Len(built.propiedades)
        IN  /\ \A p \in 0..(N_PROP - 1) :
                 (\E j \in 1..Len(sel) : sel[j] = p)
                 <=> (\E i \in 1..N_PROP : order[i] = p /\ flags[i] = 1)
            /\ \A j, k \in 1..Len(sel) :
                 j < k => \E a, b \in 1..N_PROP :
                            a < b /\ order[a] = sel[j] /\ order[b] = sel[k]
            /\ n = built.column /\ n = tabla.column
            /\ Len(built.units) = n
            /\ \A i \in 1..Len(built.data) : Len(built.data[i]) = n
            /\ \A j \in 1..Len(sel) :
                 LET f == FirstColumn(config, sel, j)
                     title == <<properties(sel[j]).name,
                                UnitText(properties(sel[j]).unit, 0)>>
                 IN  /\ f + Width(config, sel[j]) - 1 <= n
                     /\ built.propiedades[f] = title
                     /\ Width(config, sel[j]) = 3 =>
                          /\ built.propiedades[f + 1] = <<"Liquid", title>>
                          /\ built.propiedades[f + 2] = <<"Vapour", title>>
                          /\ built.units[f + 1] = built.units[f]
                          /\ built.units[f + 2] = built.units[f]
                          /\ \A i \in 1..Len(built.data) :
                               /\ built.data[i][f][3] = ""
                               /\ built.data[i][f + 1][3] = "Liquido"
                               /\ built.data[i][f + 2][3] = "Gas"
            /\ ~built.filled =>
                 /\ Len(built.keys) = n
                 /\ Len(built.columnReadOnly) = n

\* a table of a phase property after another property, under the phase
\* option, in an order other than that of the properties
C18_Witness ==
    /\ built.some /\ tabla.some
    /\ getboolean(config, "phase")
    /\ Len(built.selected) = 2
    /\ built.selected[1] > built.selected[2]
    /\ Len(built.propiedades) = 4

\* the values of property p at the calculated states of line l
ValuesOf(l, p) ==
    LET fluidos == plotData.fluidos[l]
        calculated == SelectSeq(fluidos, LAMBDA f : f.status)
    IN  [i \in 1..Len(calculated) |-> Attribute(calculated[i], p)]

\* C19: in the data calculatePlot returns the entry of property p of every
\* line holds the values of p at the calculated points of the line, for the
\* isoquality lines too, and the lists of one line have the same length
C19_LineDataHoldsPropertyValues ==
    plotData.some =>
        /\ \A p \in propertiesKey :
             /\ plotData.saturation_0[p] = ValuesOf("saturation_0", p)
             /\ plotData.saturation_1[p] = ValuesOf("saturation_1", p)
             /\ plotData.x[p] = ValuesOf("x", p)
             /\ plotData.T[p] = ValuesOf("T", p)
             /\ plotData.P[p] = ValuesOf("P", p)
        /\ \A p, q \in propertiesKey :
             /\ Len(plotData.saturation_0[p]) = Len(plotData.saturation_0[q])
             /\ Len(plotData.x[p]) = Len(plotData.x[q])
             /\ Len(plotData.T[p]) = Len(plotData.T[q])

\* the multiples of the increment from start that do not exceed end
Multiples(start, end, incr) ==
    {v \in start..end : \E m \in 0..(end - start) : v = start + m * incr}

\* the key of the property a combo box entry displays
KeyShown(txt) ==
    IF txt = Quality THEN "x"
    ELSE IsopropertyKeys[CHOOSE i \in 1..Len(propiedades) : propiedades[i] = txt]

Identified(filename, data) ==
    /\ filename = FileName(data.config.method, data.config.fluid % NFluid)
    /\ \A i \in 1..Len(data.lines) :
          /\ data.lines[i].fluid = data.config.fluid % NFluid
          /\ data.lines[i].eq = data.config.eq

\* C21: the config record saved with the data of a plot and the name of the
\* file it is saved under identify the fluid and the options every point of
\* the data was computed with, also when a Choose-fluid dialog was accepted
\* at a processEvents call of plugin.plot
C21_SavedConfigIdentifiesData ==
    \A fn \in DOMAIN softFiles : Identified(fn, Unpickle(softFiles[fn]))

\* C22: a line EditPlot.add adds is calculated for the fluid and the
\* equation of the plot, also when the fluid of the project was changed after
\* the plot was made: the data file of a method and a fluid holds only lines
\* calculated for that fluid
C22_FileHoldsLinesOfItsFluid ==
    \A fn \in DOMAIN softFiles :
        \A i \in 1..Len(Unpickle(softFiles[fn]).lines) :
            Unpickle(softFiles[fn]).lines[i].fluid = fn[3]

====
